---- MODULE Spec2Model ----
(***************************************************************************)
(* A model of the core of LEPL: the trampoline that drives matcher         *)
(* coroutines (lepl/parser.py), the interval sets used by the regular      *)
(* expression compiler (lepl/regexp/interval.py) and the configuration     *)
(* builder (lepl/core/config.py).                                          *)
(*                                                                         *)
(* Each subsystem has its own variables, its own actions and its own       *)
(* specification; a subsystem's actions leave the other variables alone.   *)
(***************************************************************************)
EXTENDS Integers, Sequences, FiniteSets, TLC

\* ------------------------------------------------------------------------
\* Bounds
\* ------------------------------------------------------------------------

\* number of trampoline loop iterations explored (the local `epoch`)
MaxEpoch == 8

VARIABLES
    \* ---- trampoline(main) : locals of the generator, parser.py 122-130
    stack,                    \* deque of coroutines, top is the last element
    value,                    \* the local `value`
    exception_being_raised,   \* the local flag
    epoch,                    \* iteration counter
    pc,                       \* where the trampoline generator is suspended
    results,                  \* values yielded to the outer consumer, in order
    raised,                   \* exception that left the trampoline, or "none"
    \* ---- the coroutines (GeneratorWrapper objects)
    gen,                      \* state of each wrapped generator
    genLeft,                  \* how many more items each generator yields, or Unlimited
    lastOp,                   \* the last operation applied to a coroutine, and its outcome
    rootVals,                 \* the non-coroutine values produced by main, in order
    \* ---- the monitor given to trampoline()
    monPush,                  \* how many times monitor.push was called with each coroutine
    monPop,                   \* how many times monitor.pop was called with each coroutine
    monFlag                   \* 0, or the epoch in which a hook of the monitor set its flag

trampVars == <<stack, value, exception_being_raised, epoch, pc, results,
               raised, gen, genLeft, lastOp, rootVals, monFlag,
                   monPush, monPop>>

\* ---- Character (regexp/interval.py 29-163)
VARIABLES
    chIntervals,              \* Character.__intervals, in order
    chIsList,                 \* TRUE when __intervals is a list, FALSE for a deque
    chSupplied,               \* the codes of every interval given so far
    chError,                  \* exception raised by the last call, or "none"
    chCount,                  \* number of append calls made
    chStr,                    \* Character.__str, as stored by __init__
    chIndex                   \* Character.__index, the list used for bisection

charVars == <<chIntervals, chIsList, chSupplied, chError, chCount, chStr,
              chIndex>>

\* ---- Fragments (regexp/interval.py 166-283)
VARIABLES
    frIntervals,              \* Fragments.__intervals, in order
    frInputs,                 \* every interval appended so far
    frCount                   \* number of append calls made

fragVars == <<frIntervals, frInputs, frCount>>

\* ---- TaggedFragments (regexp/interval.py 345-454)
VARIABLES
    tfIntervals,              \* TaggedFragments.__intervals: ((a, b), tags) in order
    tfInputs                  \* the (character, tag) pairs appended, in order

taggedVars == <<tfIntervals, tfInputs>>

\* ---- ConfigBuilder (core/config.py 66-672)
\* The builder (fields of ConfigBuilder, lines 68-78), the heap, and the
\* Configuration last returned to the caller.
VARIABLES
    cb,                       \* builder fields, heap of sets and lists, returned Configuration
    cbLast,                   \* the last call made on the builder
    cbClean,                  \* configuration was read and no modifying call made since
    cfgSeen,                  \* rewriters and monitors of the Configuration when it was returned
    cbCalls                   \* number of calls made on the builder

configVars == <<cb, cbLast, cbClean, cfgSeen, cbCalls>>

\* ---- _OffsideLexer._tokens (lexer/blocks/lexer.py 84-125)
VARIABLES
    lxInput,                  \* the lines of the stream given to _tokens
    lxDiscard,                \* the discard regexp the lexer was made with
    lxErr,                    \* the location RuntimeLexerError was raised with
    lxStream,                 \* the local `stream`: the lines not yet read
    lxLine,                   \* the local `line_stream`: the rest of the current line
    lxLineNo,                 \* number of lines taken from the stream so far
    lxPos,                    \* offset of line_stream within the current line
    lxPc,                     \* where the generator is suspended
    lxOut,                    \* the tokens yielded so far, in order
    lxSkipped                 \* offsets where the last resumption applied the discard regexp

lexVars == <<lxInput, lxDiscard, lxErr, lxStream, lxLine, lxLineNo, lxPos, lxPc, lxOut, lxSkipped>>

\* ---- Block and Indent (lexer/offside/matchers.py), shared by two parses
VARIABLES
    bkIn,                     \* per parse: stream key, head token and start level
    bkNode,                   \* fields kept on the matcher nodes: Block.__monitor,
                              \* Block.__streams, Indent.__current_indent
    bkLevels,                 \* per parse: the indent levels of its BlockMonitor
    bkGen,                    \* per parse: where each generator is suspended
    bkStack,                  \* per parse: the trampoline's stack
    bkValue,                  \* per parse: the trampoline's `value`
    bkEbr,                    \* per parse: the trampoline's exception_being_raised
    bkPc,                     \* per parse: where the trampoline is suspended
    bkResults,                \* per parse: number of results yielded to the consumer
    bkRunning,                \* the parse being driven, 0 between requests
    bkHold,                   \* which invocation added each key of Block.__streams
    bkLast,                   \* the last operation on a generator and what it did
    bkLevelOf                 \* the level each Block invocation gave to push_level

blockVars == <<bkIn, bkNode, bkLevels, bkGen, bkStack, bkValue, bkEbr, bkPc,
               bkResults, bkRunning, bkHold, bkLast, bkLevelOf>>

\* ---- make_matcher (parser.py 220-234)
VARIABLES
    mmConfig,                 \* the config argument: its set of rewriters and its monitor
    mmMade,                   \* make_matcher has returned
    mmMatcher,                \* parser.matcher: the rewriters applied to the root, innermost first
    mmLog,                    \* every call of a rewriter: the rewriter and the matcher given to it
    mmParses                  \* every call of the parser: its argument and what it started

matcherVars == <<mmConfig, mmMade, mmMatcher, mmLog, mmParses>>

laterVars == <<lexVars, blockVars, matcherVars>>

\* ---- two copies of one ConfigBuilder, given the same two calls in the
\* two orders (core/config.py)
VARIABLES
    cmA,                      \* the builder that is given cmF, then cmG
    cmB,                      \* the builder that is given cmG, then cmF
    cmF,                      \* a setter call
    cmG,                      \* another one
    cmStep,                   \* how many of the four compared calls have been made
    cmBefore                  \* how many calls both builders had before them

commuteVars == <<cmA, cmB, cmF, cmG, cmStep, cmBefore>>

\* ---- Clone over ConstructorWalker (graph.py 351-403, 703-753)
VARIABLES
    clHeap,                   \* every node object: its type and constructor arguments
    clDelegate,               \* every Proxy: the node it stands for, 0 for None
    clRoots,                  \* the root of the graph, of its clone, of the clone of that
    clWalking,                \* a ConstructorWalker call is in its loop
    clOrder,                  \* what postorder will still yield
    clResults,                \* the `results` dict: node to new node, 0 for none
    clProxies,                \* Clone._proxies: node to Proxy, 0 for none
    clVisited,                \* the nodes visitor.node and visitor.constructor were called for
    clLoops                   \* the calls of visitor.loop: (node under construction, argument)

cloneVars == <<clHeap, clDelegate, clRoots, clWalking, clOrder, clResults,
               clProxies, clVisited, clLoops>>

\* ---- one invocation of a Token's _match (lexer/matchers.py 169-192)
VARIABLES
    tkToken,                  \* the Token's id_, content, complete and compiled
    tkStream,                 \* the token stream given to _match
    tkPc,                     \* where the generator is suspended
    tkPulled,                 \* how many results of the content it has received
    tkOut,                    \* the (result, stream) pairs it has yielded, in order
    tkErr                     \* the exception it raised, if any

tokenVars == <<tkToken, tkStream, tkPc, tkPulled, tkOut, tkErr>>

\* ---- one call of the function returned by make_parser (parser.py 237-253)
VARIABLES
    spRet                     \* how the call ended: not yet, a returned value, or an exception

singleVars == <<spRet>>

\* ---- a ParserMixin over its ConfigBuilder (core/config.py 675-694)
VARIABLES
    pmCache,                  \* ParserMixin.__matcher_cache: what the matcher was built from
    pmFrom,                   \* ParserMixin.__from
    pmLast,                   \* the last call of __matcher: its arguments, and whether it rebuilt
    pmCalls                   \* number of calls of __matcher

mixinVars == <<pmCache, pmFrom, pmLast, pmCalls>>

\* ---- one run of dfs_edges (graph.py 67-104)
VARIABLES
    dfHeap,                   \* the graph that is traversed
    dfStack,                  \* stack: (node, what iter(node) has left, ptype)
    dfVisited,                \* visited
    dfAdd,                    \* the node safe_add is about to be called with, or <<>>
    dfItems,                  \* the items yielded so far
    dfPc                      \* where the generator is suspended

dfsVars == <<dfHeap, dfStack, dfVisited, dfAdd, dfItems, dfPc>>

\* ---- one run of loops (graph.py 159-179)
VARIABLES
    loHeap,                   \* the graph; node 1 is the node given
    loStack,                  \* stack: the families still to be extended
    loKnown,                  \* known
    loAncestors,              \* ancestors, of the turn of the while loop
    loTodo,                   \* what the for loop has left of the children
    loOut,                    \* the lists yielded so far
    loPc                      \* where the generator is suspended

loopsVars == <<loHeap, loStack, loKnown, loAncestors, loTodo, loOut, loPc>>

graphVars == <<dfsVars, loopsVars>>

furtherVars == <<tokenVars, singleVars, mixinVars, graphVars>>

moreVars == <<commuteVars, cloneVars, furtherVars>>

vars == <<trampVars, charVars, fragVars, taggedVars, configVars, laterVars,
          moreVars>>

otherThanTramp == <<charVars, fragVars, taggedVars, configVars, laterVars, moreVars>>
otherThanChar == <<trampVars, fragVars, taggedVars, configVars, laterVars, moreVars>>
otherThanFrag == <<trampVars, charVars, taggedVars, configVars, laterVars, moreVars>>
otherThanTagged == <<trampVars, charVars, fragVars, configVars, laterVars, moreVars>>
otherThanConfig == <<trampVars, charVars, fragVars, taggedVars, laterVars, moreVars>>
earlierVars == <<trampVars, charVars, fragVars, taggedVars, configVars>>
otherThanLex == <<earlierVars, blockVars, matcherVars, moreVars>>
otherThanBlock == <<earlierVars, lexVars, matcherVars, moreVars>>
otherThanMatcher == <<earlierVars, lexVars, blockVars, moreVars>>
otherThanCommute == <<earlierVars, laterVars, cloneVars, furtherVars>>
otherThanClone == <<earlierVars, laterVars, commuteVars, furtherVars>>
otherThanToken == <<earlierVars, laterVars, commuteVars, cloneVars, singleVars,
                   mixinVars, graphVars>>
otherThanSingle == <<charVars, fragVars, taggedVars, configVars, laterVars,
                    commuteVars, cloneVars, tokenVars, mixinVars, graphVars>>
otherThanMixin == <<trampVars, charVars, fragVars, taggedVars, laterVars,
                   commuteVars, cloneVars, tokenVars, singleVars, graphVars>>
otherThanGraph == <<earlierVars, laterVars, commuteVars, cloneVars, tokenVars,
                   singleVars, mixinVars>>
otherThanDfs == <<otherThanGraph, loopsVars>>
otherThanLoops == <<otherThanGraph, dfsVars>>

\* ------------------------------------------------------------------------
\* Coroutines
\* ------------------------------------------------------------------------

\* The GeneratorWrapper objects that exist during one parse; main is the
\* argument of trampoline().
main == "main"
Gens == {"main", "g2", "g3"}

\* Ordinary (non-coroutine) values a matcher can yield.
Vals == {"r1", "r2"}

\* Exceptions (all subclasses of Exception, which is what line 192 catches).
StopIteration == "StopIteration"
Errors == {"ErrorA", "ErrorB"}
Excs == {StopIteration} \cup Errors

GenV(g) == [kind |-> "gen", x |-> g]
ValV(v) == [kind |-> "val", x |-> v]
ExcV(e) == [kind |-> "exc", x |-> e]
NoV     == [kind |-> "none", x |-> "none"]

\* type(value) is GeneratorWrapper
IsGeneratorWrapper(v) == v.kind = "gen"

OnStack(s) == {s[i] : i \in 1..Len(s)}

\* What a running generator body can do when it is resumed while the stack
\* is s: yield a coroutine that is not being evaluated, yield a value,
\* finish (StopIteration) or raise.
Body(s) == {GenV(h) : h \in Gens \ OnStack(s)}
             \cup {ValV(v) : v \in Vals}
             \cup {ExcV(e) : e \in Excs}

\* a generator of which nothing is known
Unlimited == 0 - 1

\* GeneratorWrapper.__next__ / send / throw: the outcomes of applying op to
\* coroutine g.  An outcome of kind "exc" is an exception leaving the call.
\* A generator that has yielded all its items ends or raises.
Resume(g, op, arg, s) ==
    IF gen[g] = "finished"
    THEN IF op = "throw" THEN {ExcV(arg.x)} ELSE {ExcV(StopIteration)}
    ELSE IF gen[g] = "new" /\ op = "throw" THEN {ExcV(arg.x)}
    ELSE IF genLeft[g] = 0 THEN {ExcV(e) : e \in Excs}
    ELSE Body(s)

\* what generator g has left to yield after an operation with outcome o
LeftAfter(g, o) ==
    IF o.kind # "exc" /\ genLeft[g] > 0
    THEN [genLeft EXCEPT ![g] = @ - 1] ELSE genLeft

\* State of generator g after an operation with outcome o.
GenAfter(g, o) ==
    [gen EXCEPT ![g] = IF o.kind = "exc" THEN "finished" ELSE "suspended"]

\* ------------------------------------------------------------------------
\* trampoline
\* ------------------------------------------------------------------------

TrampInit ==
    /\ stack = <<>>
    /\ value = NoV
    /\ exception_being_raised = FALSE
    /\ epoch = 0
    /\ pc = "start"
    /\ results = <<>>
    /\ raised = "none"
    /\ gen = [g \in Gens |-> "new"]
    /\ genLeft = [g \in Gens |-> Unlimited]
    /\ lastOp = [op |-> "none", to |-> "none", arg |-> NoV, out |-> NoV]
    /\ rootVals = <<>>
    /\ monFlag = 0
    /\ monPush = [g \in Gens |-> 0]
    /\ monPop = [g \in Gens |-> 0]

\* The outer consumer calls next() for the first time: lines 125-130.
Start ==
    /\ pc = "start"
    /\ pc' = "loop"
    /\ value' = GenV(main)
    /\ exception_being_raised' = FALSE
    /\ epoch' = 0
    /\ UNCHANGED <<stack, results, raised, gen, genLeft, lastOp, rootVals, monFlag,
                   monPush, monPop>>
    /\ UNCHANGED otherThanTramp

Top(s) == s[Len(s)]
Pop(s) == SubSeq(s, 1, Len(s) - 1)

\* The hooks of the monitor called in one iteration (next_iteration, push,
\* before_next, ..., lines 134-204): the trampoline passes them its state
\* and uses nothing they return.  A hook may set a flag on its monitor,
\* which then stays set.
\* monitor.push(value), line 141, is called when value is a coroutine, and
\* monitor.pop(popped), line 156, when it is not.
Monitored ==
    /\ monFlag' \in (IF monFlag = 0 THEN {0, epoch + 1} ELSE {monFlag})
    /\ monPush' = IF IsGeneratorWrapper(value)
                  THEN [monPush EXCEPT ![value.x] = @ + 1] ELSE monPush
    /\ monPop' = IF ~IsGeneratorWrapper(value) /\ stack # <<>>
                 THEN [monPop EXCEPT ![Top(stack)] = @ + 1] ELSE monPop

\* A driver whose handler catches StopIteration only: any other exception
\* leaves the trampoline at once.
Applied_StopOnly(g, op, arg, o, ebr) ==
    /\ lastOp' = [op |-> op, to |-> g, arg |-> arg, out |-> o]
    /\ gen' = GenAfter(g, o)
    /\ genLeft' = LeftAfter(g, o)
    /\ rootVals' = IF g = main /\ o.kind = "val"
                   THEN Append(rootVals, o.x) ELSE rootVals
    /\ IF o.kind = "exc" /\ (ebr \/ o.x # StopIteration)
       THEN /\ pc' = "done"
            /\ raised' = o.x
            /\ value' = value
            /\ exception_being_raised' = ebr
       ELSE /\ pc' = "loop"
            /\ raised' = raised
            /\ value' = o
            /\ exception_being_raised' = (o.kind = "exc")

\* The result of applying op(arg) to coroutine g, with outcome o, seen from
\* the loop body: a yielded item becomes `value` (lines 147, 165, 173); an
\* exception is caught at line 192 and, since exception_being_raised is
\* ebr at that point, either becomes `value` (202-203) or leaves the
\* trampoline (196).
Applied(g, op, arg, o, ebr) ==
    /\ lastOp' = [op |-> op, to |-> g, arg |-> arg, out |-> o]
    /\ gen' = GenAfter(g, o)
    /\ genLeft' = LeftAfter(g, o)
    /\ rootVals' = IF g = main /\ o.kind = "val"
                   THEN Append(rootVals, o.x) ELSE rootVals
    /\ IF o.kind = "exc" /\ ebr
       THEN /\ pc' = "done"
            /\ raised' = o.x
            /\ value' = value
            /\ exception_being_raised' = ebr
       ELSE /\ pc' = "loop"
            /\ raised' = raised
            /\ value' = o
            /\ exception_being_raised' = (o.kind = "exc")

\* lines 139-149: value is a coroutine; push it and evaluate it.
Iter_Push ==
    /\ pc = "loop" /\ epoch < MaxEpoch
    /\ IsGeneratorWrapper(value)
    /\ epoch' = epoch + 1
    /\ Monitored
    /\ stack' = Append(stack, value.x)
    /\ \E o \in Resume(value.x, "next", NoV, stack') :
          Applied(value.x, "next", NoV, o, exception_being_raised)
    /\ UNCHANGED results
    /\ UNCHANGED otherThanTramp

\* A driver with cancellation: when the monitor's flag is set, the coroutine
\* below the one that produced the value is closed and removed instead of
\* being resumed.
Iter_PopSend_Cancel ==
    /\ pc = "loop" /\ epoch < MaxEpoch
    /\ ~IsGeneratorWrapper(value)
    /\ Len(stack) > 1
    /\ ~exception_being_raised
    /\ epoch' = epoch + 1
    /\ Monitored
    /\ IF monFlag # 0
       THEN /\ stack' = Pop(Pop(stack))
            /\ gen' = [gen EXCEPT ![Top(Pop(stack))] = "finished"]
            /\ genLeft' = genLeft
            /\ UNCHANGED <<value, exception_being_raised, pc, raised, lastOp,
                           rootVals>>
       ELSE /\ stack' = Pop(stack)
            /\ \E o \in Resume(Top(stack'), "send", value, stack') :
                  Applied(Top(stack'), "send", value, o, FALSE)
    /\ UNCHANGED results
    /\ UNCHANGED otherThanTramp

\* A driver that forgets to drop the coroutine that produced the value.
Iter_PopSend_NoPop ==
    /\ pc = "loop" /\ epoch < MaxEpoch
    /\ ~IsGeneratorWrapper(value)
    /\ Len(stack) > 1
    /\ ~exception_being_raised
    /\ epoch' = epoch + 1
    /\ Monitored
    /\ stack' = stack
    /\ \E o \in Resume(Top(stack'), "send", value, stack') :
          Applied(Top(stack'), "send", value, o, FALSE)
    /\ UNCHANGED results
    /\ UNCHANGED otherThanTramp

\* lines 152-158, 169-175: value is a result and a coroutine remains below
\* the one that produced it: pop, then send the value into the new top.
Iter_PopSend ==
    /\ pc = "loop" /\ epoch < MaxEpoch
    /\ ~IsGeneratorWrapper(value)
    /\ Len(stack) > 1
    /\ ~exception_being_raised
    /\ epoch' = epoch + 1
    /\ Monitored
    /\ stack' = Pop(stack)
    /\ \E o \in Resume(Top(stack'), "send", value, stack') :
          Applied(Top(stack'), "send", value, o, FALSE)
    /\ UNCHANGED results
    /\ UNCHANGED otherThanTramp

\* A driver that passes the exception object to the parent as a value.
Iter_PopThrow_AsSend ==
    /\ pc = "loop" /\ epoch < MaxEpoch
    /\ ~IsGeneratorWrapper(value)
    /\ Len(stack) > 1
    /\ exception_being_raised
    /\ epoch' = epoch + 1
    /\ Monitored
    /\ stack' = Pop(stack)
    /\ \E o \in Resume(Top(stack'), "send", value, stack') :
          Applied(Top(stack'), "send", value, o, FALSE)
    /\ UNCHANGED results
    /\ UNCHANGED otherThanTramp

\* lines 152-167: an exception is being raised and a coroutine remains:
\* pop, clear the flag, throw the exception into the new top.
Iter_PopThrow ==
    /\ pc = "loop" /\ epoch < MaxEpoch
    /\ ~IsGeneratorWrapper(value)
    /\ Len(stack) > 1
    /\ exception_being_raised
    /\ epoch' = epoch + 1
    /\ Monitored
    /\ stack' = Pop(stack)
    /\ \E o \in Resume(Top(stack'), "throw", value, stack') :
          Applied(Top(stack'), "throw", value, o, FALSE)
    /\ UNCHANGED results
    /\ UNCHANGED otherThanTramp

\* lines 152-156, 178, 183-186: the stack is unwound; hand the value to
\* the outer consumer and suspend at the yield.
Iter_PopYield ==
    /\ pc = "loop" /\ epoch < MaxEpoch
    /\ ~IsGeneratorWrapper(value)
    /\ Len(stack) = 1
    /\ ~exception_being_raised
    /\ epoch' = epoch + 1
    /\ Monitored
    /\ stack' = Pop(stack)
    /\ results' = Append(results, value.x)
    /\ pc' = "yielded"
    /\ UNCHANGED <<value, exception_being_raised, raised, gen, genLeft, lastOp, rootVals>>
    /\ UNCHANGED otherThanTramp

\* A driver that starts again with main when an exception has unwound the
\* stack, instead of raising it.
Iter_PopRaise_Restart ==
    /\ pc = "loop" /\ epoch < MaxEpoch
    /\ ~IsGeneratorWrapper(value)
    /\ Len(stack) = 1
    /\ exception_being_raised
    /\ epoch' = epoch + 1
    /\ Monitored
    /\ stack' = Pop(stack)
    /\ value' = GenV(main)
    /\ exception_being_raised' = FALSE
    /\ UNCHANGED <<pc, raised, results, gen, genLeft, lastOp, rootVals>>
    /\ UNCHANGED otherThanTramp

\* lines 152-156, 178-182, 192-196, 214-217: the stack is unwound while an
\* exception is being raised; `raise value` is caught at 192 with the flag
\* set and re-raised to the outer consumer.  A StopIteration leaving the
\* generator ends the result sequence.
Iter_PopRaise ==
    /\ pc = "loop" /\ epoch < MaxEpoch
    /\ ~IsGeneratorWrapper(value)
    /\ Len(stack) = 1
    /\ exception_being_raised
    /\ epoch' = epoch + 1
    /\ Monitored
    /\ stack' = Pop(stack)
    /\ raised' = value.x
    /\ pc' = "done"
    /\ UNCHANGED <<value, exception_being_raised, results, gen, genLeft, lastOp, rootVals>>
    /\ UNCHANGED otherThanTramp

\* A driver that does not reset `value` after the yield.
Request_KeepValue ==
    /\ pc = "yielded"
    /\ value' = value
    /\ pc' = "loop"
    /\ UNCHANGED <<stack, exception_being_raised, epoch, results, raised,
                   gen, genLeft, lastOp, rootVals, monFlag,
                   monPush, monPop>>
    /\ UNCHANGED otherThanTramp

\* line 189: the outer consumer asks for a further result; the generator
\* resumes after the yield and restarts with main.
Request ==
    /\ pc = "yielded"
    /\ value' = GenV(main)
    /\ pc' = "loop"
    /\ UNCHANGED <<stack, exception_being_raised, epoch, results, raised,
                   gen, genLeft, lastOp, rootVals, monFlag,
                   monPush, monPop>>
    /\ UNCHANGED otherThanTramp

\* The outer consumer closes the trampoline at the yield: GeneratorExit is
\* not an Exception, so only the finally clause (214-217) runs.
Close ==
    /\ pc = "yielded"
    /\ pc' = "done"
    /\ UNCHANGED <<stack, value, exception_being_raised, epoch, results,
                   raised, gen, genLeft, lastOp, rootVals, monFlag,
                   monPush, monPop>>
    /\ UNCHANGED otherThanTramp

\* an exception that is no subclass of Exception
KeyboardInterrupt == "KeyboardInterrupt"

\* a trampoline that leaves the stack as it is when it ends
finally_Skip(pops, s) == pops

\* the finally clause, lines 214-217: monitor.pop(pop()) for every
\* coroutine left on the stack
finally(pops, s) ==
    [g \in Gens |-> pops[g] + Cardinality({k \in 1..Len(s) : s[k] = g})]

\* One iteration in which the coroutine that is evaluated or resumed
\* raises an exception that line 192 does not catch: after the push and
\* append of lines 139-147, or the pop of lines 154-173, the exception
\* leaves the loop and the finally clause runs with what is on the stack.
Iter_Interrupt ==
    /\ pc = "loop" /\ epoch < MaxEpoch
    /\ IsGeneratorWrapper(value) \/ Len(stack) > 1
    /\ epoch' = epoch + 1
    /\ monFlag' \in (IF monFlag = 0 THEN {0, epoch + 1} ELSE {monFlag})
    /\ \E s \in {IF IsGeneratorWrapper(value) THEN Append(stack, value.x)
                  ELSE Pop(stack)} :
          /\ monPush' = IF IsGeneratorWrapper(value)
                        THEN [monPush EXCEPT ![value.x] = @ + 1] ELSE monPush
          /\ monPop' = finally(IF IsGeneratorWrapper(value) THEN monPop
                               ELSE [monPop EXCEPT ![Top(stack)] = @ + 1], s)
          /\ gen[Top(s)] # "finished"
          /\ gen' = [gen EXCEPT ![Top(s)] = "finished"]
          /\ genLeft' = genLeft
          /\ lastOp' = [op |-> IF IsGeneratorWrapper(value) THEN "next"
                               ELSE IF exception_being_raised THEN "throw"
                               ELSE "send",
                        to |-> Top(s), arg |-> IF IsGeneratorWrapper(value)
                                               THEN NoV ELSE value,
                        out |-> ExcV(KeyboardInterrupt)]
    /\ stack' = <<>>
    /\ raised' = KeyboardInterrupt
    /\ pc' = "done"
    /\ UNCHANGED <<value, exception_being_raised, results, rootVals>>
    /\ UNCHANGED otherThanTramp

TrampNext ==
    \/ Start
    \/ Iter_Push
    \/ Iter_PopSend
    \/ Iter_PopThrow
    \/ Iter_PopYield
    \/ Iter_PopRaise
    \/ Request
    \/ Close

\* the iterations of the loop, which run without the consumer
Iterations ==
    Iter_Push \/ Iter_PopSend \/ Iter_PopThrow \/ Iter_PopYield \/ Iter_PopRaise

\* generators that yield finitely many items: at most MaxEpoch iterations
\* are needed for them (two for every item, and two for main's last turn)
RECURSIVE SumOver(_, _)
SumOver(f, S) ==
    IF S = {} THEN 0
    ELSE LET g == CHOOSE x \in S : TRUE IN f[g] + SumOver(f, S \ {g})

FiniteInit ==
    /\ stack = <<>>
    /\ value = NoV
    /\ exception_being_raised = FALSE
    /\ epoch = 0
    /\ pc = "start"
    /\ results = <<>>
    /\ raised = "none"
    /\ gen = [g \in Gens |-> "new"]
    /\ genLeft \in {f \in [Gens -> 0..(MaxEpoch \div 2)] :
                       2 * SumOver(f, Gens) + 2 <= MaxEpoch}
    /\ lastOp = [op |-> "none", to |-> "none", arg |-> NoV, out |-> NoV]
    /\ rootVals = <<>>
    /\ monFlag = 0
    /\ monPush = [g \in Gens |-> 0]
    /\ monPop = [g \in Gens |-> 0]

MonitorNext ==
    \/ TrampNext
    \/ Iter_Interrupt

\* ------------------------------------------------------------------------
\* Properties of the trampoline
\* ------------------------------------------------------------------------

\* an iteration of the while loop is taken in this step
Iterates == pc = "loop" /\ epoch' # epoch

\* no coroutine other than g is touched in this step
OnlyTouches(g) == \A h \in Gens \ {g} : gen'[h] = gen[h]

IsPrefix(s, t) == Len(s) <= Len(t) /\ s = SubSeq(t, 1, Len(s))

\* C1: when the top coroutine has produced a value that is not a coroutine,
\* the iteration pops it; if a coroutine remains the value is sent into the
\* new top and no other coroutine is touched; otherwise the value is
\* yielded to the outer consumer.  The stack is empty whenever a result is
\* in the hands of the outer consumer.
C1_ResultPassedUp ==
    /\ [][ (Iterates /\ ~IsGeneratorWrapper(value) /\ ~exception_being_raised)
           => /\ stack' = Pop(stack)
              /\ IF Len(stack) > 1
                 THEN /\ lastOp'.op = "send"
                      /\ lastOp'.to = Top(stack')
                      /\ lastOp'.arg = value
                      /\ OnlyTouches(Top(stack'))
                      /\ results' = results
                 ELSE /\ results' = Append(results, value.x)
                      /\ pc' = "yielded"
                      /\ gen' = gen /\ lastOp' = lastOp ]_vars
    /\ [](pc = "yielded" => stack = <<>>)

C1_Witness ==
    /\ pc = "yielded" /\ stack = <<>>
    /\ lastOp.op = "send" /\ lastOp.to = main /\ lastOp.arg.kind = "val"
    /\ Len(results) = 1

\* C2: when the top coroutine is exhausted (StopIteration), the iteration
\* pops it and throws that StopIteration, once, into the new top; if the
\* exhausted coroutine was the last one the result sequence ends and no
\* further result is ever yielded.
C2_ExhaustionThrown ==
    /\ [][ (Iterates /\ exception_being_raised /\ value = ExcV(StopIteration))
           => /\ stack' = Pop(stack)
              /\ results' = results
              /\ IF Len(stack) > 1
                 THEN /\ lastOp'.op = "throw"
                      /\ lastOp'.to = Top(stack')
                      /\ lastOp'.arg = ExcV(StopIteration)
                      /\ OnlyTouches(Top(stack'))
                 ELSE /\ pc' = "done" /\ raised' = StopIteration
                      /\ gen' = gen /\ lastOp' = lastOp ]_vars
    /\ [][ pc = "done" => (pc' = "done" /\ results' = results) ]_vars

C2_Witness ==
    /\ pc = "done" /\ raised = StopIteration
    /\ lastOp.op = "throw" /\ lastOp.arg = ExcV(StopIteration)
    /\ lastOp.out = ExcV(StopIteration)

C4_RestartSameRoot ==
    /\ [][ (pc = "yielded" /\ pc' = "loop")
           => (value' = GenV(main) /\ stack' = <<>> /\ gen' = gen) ]_vars
    /\ [][ (Iterates /\ stack = <<>>)
           => (stack' = <<main>> /\ lastOp'.op = "next" /\ lastOp'.to = main) ]_vars
    /\ [](/\ IsPrefix(results, rootVals)
          /\ Len(rootVals) <= Len(results) + 1
          /\ (pc = "yielded" => results = rootVals))

C4_Witness ==
    /\ pc = "yielded" /\ Len(results) = 2 /\ results = rootVals
    /\ results[1] # results[2]

\* ------------------------------------------------------------------------
\* Alphabet and intervals (regexp/interval.py)
\* ------------------------------------------------------------------------

\* largest character code of the alphabet explored
MaxCode == 3
\* longest interval list given to the Character constructor
MaxCtor == 2
\* number of Character.append calls explored
MaxCharAppends == 2
\* number of Fragments.append calls explored
MaxFragAppends == 3
\* number of TaggedFragments.append calls explored
MaxTaggedAppends == 3

Codes == 0..MaxCode

\* An interval as a caller may write it: a pair in either orientation.
Intervals == Codes \X Codes

\* alphabet.before / alphabet.after: the neighbouring codes
before(c) == c - 1
after(c) == c + 1

\* the codes of interval (a, b), whichever way round it is written
CodesOf(i) == IF i[1] <= i[2] THEN i[1]..i[2] ELSE i[2]..i[1]

\* the codes covered by a list of intervals
Cover(l) == UNION {CodesOf(l[k]) : k \in 1..Len(l)}

\* interval lists of length at most n
IntervalLists(n) == UNION {[1..k -> Intervals] : k \in 0..n}

\* ---- Character

\* The while loop of Character.__append: rest is what is left of
\* self.__intervals, acc the new deque, (a1, b1) the interval being added.
RECURSIVE Character_loop(_, _, _, _)
Character_loop(rest, acc, a1, b1) ==
    IF rest = <<>>
    THEN Append(acc, <<a1, b1>>)
    ELSE LET a0 == Head(rest)[1]
             b0 == Head(rest)[2]
             tl == Tail(rest)
         IN IF a0 <= a1
            THEN IF b0 < a1 /\ b0 # before(a1)
                 THEN Character_loop(tl, Append(acc, <<a0, b0>>), a1, b1)
                 ELSE IF b1 <= b0
                 THEN Append(acc, <<a0, b0>>) \o tl
                 ELSE Character_loop(tl, acc, a0, b1)
            ELSE IF b1 < a0 /\ b1 # before(a0)
                 THEN acc \o << <<a1, b1>>, <<a0, b0>> >> \o tl
                 ELSE IF b0 <= b1
                 THEN Character_loop(tl, acc, a1, b1)
                 ELSE Append(acc, <<a1, b0>>) \o tl

\* Character.__append on a deque: canonicalize the pair, then merge.
Character_append(l, i) ==
    IF i[2] < i[1]
    THEN Character_loop(l, <<>>, i[2], i[1])
    ELSE Character_loop(l, <<>>, i[1], i[2])

\* Character.__init__: __append for each interval, starting from an empty
\* deque.
RECURSIVE Character_init(_)
Character_init(seq) ==
    IF seq = <<>> THEN <<>>
    ELSE Character_append(Character_init(SubSeq(seq, 1, Len(seq) - 1)),
                          seq[Len(seq)])

RECURSIVE fmt_intervals(_)
\* alphabet.fmt_intervals(intervals), called at line 49: the text of each
\* interval in order, one code for a single value and "a-b" (the dash
\* written -1) for a range
fmt_intervals(l) ==
    IF l = <<>> THEN <<>>
    ELSE (IF Head(l)[1] = Head(l)[2] THEN <<Head(l)[1]>>
          ELSE <<Head(l)[1], -1, Head(l)[2]>>) \o fmt_intervals(Tail(l))

\* Character.__eq__, lines 153-156, for two Characters with the given __str
Character_eq(str1, str2) == str1 = str2

\* Character.__build_index: the upper bound of each interval, in order
build_index_Lower(l) == [k \in 1..Len(l) |-> l[k][1]]

build_index(l) == [k \in 1..Len(l) |-> l[k][2]]

\* bisect.bisect_left(a, x) of the standard library, on a[lo:hi] counted
\* from 0: halve the range until it is empty
RECURSIVE bisect_left(_, _, _, _)
bisect_left(a, x, lo, hi) ==
    IF lo < hi
    THEN LET mid == (lo + hi) \div 2
         IN IF a[mid + 1] < x
            THEN bisect_left(a, x, mid + 1, hi)
            ELSE bisect_left(a, x, lo, mid)
    ELSE lo

\* Character.__contains__(c) of a Character with the given __index and
\* __intervals
Character_contains(index, intervals, c) ==
    IF index # <<>>
    THEN LET i == bisect_left(index, c, 0, Len(index))
         IN IF i < Len(intervals)
            THEN intervals[i + 1][1] <= c /\ c <= intervals[i + 1][2]
            ELSE FALSE
    ELSE FALSE

\* Character.__init__ leaves __intervals as a list (line 48).
CharInit ==
    \E seq \in IntervalLists(MaxCtor) :
        /\ chIntervals = Character_init(seq)
        /\ chStr = fmt_intervals(Character_init(seq))
        /\ chIndex = build_index(Character_init(seq))
        /\ chIsList = TRUE
        /\ chSupplied = Cover(seq)
        /\ chError = "none"
        /\ chCount = 0

CharIdle ==
    /\ chIntervals = <<>>
    /\ chStr = <<>>
    /\ chIndex = <<>>
    /\ chIsList = TRUE
    /\ chSupplied = {}
    /\ chError = "none"
    /\ chCount = 0

\* Character.append(interval) where __intervals is an empty list or a
\* deque: __append builds a new deque, then the index is rebuilt.
Character_append_ok ==
    /\ chCount < MaxCharAppends
    /\ (chIntervals = <<>> \/ ~chIsList)
    /\ \E i \in Intervals :
        /\ chIntervals' = Character_append(chIntervals, i)
        /\ chIndex' = build_index(Character_append(chIntervals, i))
        /\ chSupplied' = chSupplied \cup CodesOf(i)
    /\ chIsList' = FALSE
    /\ chError' = "none"
    /\ chCount' = chCount + 1
    /\ UNCHANGED chStr
    /\ UNCHANGED otherThanChar

\* Character.append(interval) where __intervals is the non-empty list left
\* by __init__: the loop at line 78 is entered and popleft (line 81) is not
\* a method of list, so AttributeError leaves the call with nothing changed
\* (__build_index, line 59, is not reached).
Character_append_raises ==
    /\ chCount < MaxCharAppends
    /\ chIntervals # <<>> /\ chIsList
    /\ \E i \in Intervals :
        chSupplied' = chSupplied \cup CodesOf(i)
    /\ chError' = "AttributeError"
    /\ chCount' = chCount + 1
    /\ UNCHANGED <<chIntervals, chIsList, chStr, chIndex>>
    /\ UNCHANGED otherThanChar

CharNext ==
    \/ Character_append_ok
    \/ Character_append_raises

\* ---- Fragments

\* A split that forgets the last part of the old interval.
Fragments_within_NoTail(a0, b0, a1, b1) ==
    (IF a0 < a1 THEN << <<a0, before(a1)>> >> ELSE <<>>)
      \o << <<a1, b1>> >>

\* lines 216-223: the new interval lies within the old one; one, two or
\* three pieces.
Fragments_within(a0, b0, a1, b1) ==
    (IF a0 < a1 THEN << <<a0, before(a1)>> >> ELSE <<>>)
      \o << <<a1, b1>> >>
      \o (IF b1 < b0 THEN << <<after(b1), b0>> >> ELSE <<>>)

\* The while loop of Fragments.__append.
RECURSIVE Fragments_loop(_, _, _, _)
Fragments_loop(rest, acc, a1, b1) ==
    IF rest = <<>>
    THEN Append(acc, <<a1, b1>>)
    ELSE LET a0 == Head(rest)[1]
             b0 == Head(rest)[2]
             tl == Tail(rest)
         IN IF a0 <= a1
            THEN IF b0 < a1
                 THEN Fragments_loop(tl, Append(acc, <<a0, b0>>), a1, b1)
                 ELSE IF b1 <= b0
                 THEN acc \o Fragments_within(a0, b0, a1, b1) \o tl
                 ELSE Fragments_loop(tl,
                        acc \o (IF a0 < a1 THEN << <<a0, before(a1)>> >> ELSE <<>>)
                            \o << <<a1, b0>> >>,
                        after(b0), b1)
            ELSE IF b1 < a0
                 THEN acc \o << <<a1, b1>>, <<a0, b0>> >> \o tl
                 ELSE IF b0 <= b1
                 THEN IF b1 > b0
                      THEN Fragments_loop(tl,
                             acc \o << <<a1, before(a0)>>, <<a0, b0>> >>,
                             after(b0), b1)
                      ELSE acc \o << <<a1, before(a0)>>, <<a0, b0>> >> \o tl
                 ELSE acc \o << <<a1, before(a0)>>, <<a0, b1>>,
                                <<after(b1), b0>> >> \o tl

\* Fragments.__append
Fragments__append(l, i) ==
    IF i[2] < i[1]
    THEN Fragments_loop(l, <<>>, i[2], i[1])
    ELSE Fragments_loop(l, <<>>, i[1], i[2])

\* Fragments.append(character): __append for each interval of the
\* character, in order.
RECURSIVE Fragments_append(_, _)
Fragments_append(l, c) ==
    IF c = <<>> THEN l
    ELSE Fragments_append(Fragments__append(l, Head(c)), Tail(c))

\* The Character objects handed to Fragments and TaggedFragments, as their
\* constructor stores them.
Characters == {Character_init(seq) : seq \in IntervalLists(MaxCtor)}

RangeOf(s) == {s[k] : k \in 1..Len(s)}

\* Fragments.__init__ with characters None or a list of one Character.
FragInit ==
    /\ \E cs \in {<<>>} \cup {<<c>> : c \in Characters} :
        /\ frIntervals = (IF cs = <<>> THEN <<>>
                          ELSE Fragments_append(<<>>, cs[1]))
        /\ frInputs = (IF cs = <<>> THEN {} ELSE RangeOf(cs[1]))
    /\ frCount = 0

FragIdle ==
    /\ frIntervals = <<>>
    /\ frInputs = {}
    /\ frCount = 0

\* Fragments.append(character)
Fragments_append_call ==
    /\ frCount < MaxFragAppends
    /\ \E c \in Characters :
        /\ frIntervals' = Fragments_append(frIntervals, c)
        /\ frInputs' = frInputs \cup RangeOf(c)
    /\ frCount' = frCount + 1
    /\ UNCHANGED otherThanFrag

FragNext == Fragments_append_call

\* ---- TaggedFragments

\* The value given with the n-th append.  The code never inspects a tag, so
\* distinct tags show the most: every other choice of tags is a renaming.
Tag(n) == n

\* An overlap that puts the new tag first.
TaggedFragments_join_Reversed(v0, v1) == v1 \o v0

\* lines 391, 405, 422, 434: the tags of an overlap are v0+v1
TaggedFragments_join(v0, v1) == v0 \o v1

\* The while loop of TaggedFragments.__append.
RECURSIVE TaggedFragments_loop(_, _, _, _, _)
TaggedFragments_loop(rest, acc, a1, b1, v1) ==
    IF rest = <<>>
    THEN Append(acc, << <<a1, b1>>, v1 >>)
    ELSE LET a0 == Head(rest)[1][1]
             b0 == Head(rest)[1][2]
             v0 == Head(rest)[2]
             v01 == TaggedFragments_join(v0, v1)
             tl == Tail(rest)
         IN IF a0 <= a1
            THEN IF b0 < a1
                 THEN TaggedFragments_loop(tl, Append(acc, << <<a0, b0>>, v0 >>),
                                           a1, b1, v1)
                 ELSE IF b1 <= b0
                 THEN acc \o (IF a0 < a1 THEN << << <<a0, before(a1)>>, v0 >> >>
                                         ELSE <<>>)
                          \o << << <<a1, b1>>, v01 >> >>
                          \o (IF b1 < b0 THEN << << <<after(b1), b0>>, v0 >> >>
                                         ELSE <<>>)
                          \o tl
                 ELSE TaggedFragments_loop(tl,
                        acc \o (IF a0 < a1 THEN << << <<a0, before(a1)>>, v0 >> >>
                                           ELSE <<>>)
                            \o << << <<a1, b0>>, v01 >> >>,
                        after(b0), b1, v1)
            ELSE IF b1 < a0
                 THEN acc \o << << <<a1, b1>>, v1 >>, << <<a0, b0>>, v0 >> >> \o tl
                 ELSE IF b0 <= b1
                 THEN IF b1 > b0
                      THEN TaggedFragments_loop(tl,
                             acc \o << << <<a1, before(a0)>>, v1 >>,
                                       << <<a0, b0>>, v01 >> >>,
                             after(b0), b1, v1)
                      ELSE acc \o << << <<a1, before(a0)>>, v1 >>,
                                     << <<a0, b0>>, v01 >> >> \o tl
                 ELSE acc \o << << <<a1, before(a0)>>, v1 >>,
                                << <<a0, b1>>, v01 >>,
                                << <<after(b1), b0>>, v0 >> >> \o tl

\* TaggedFragments.__append
TaggedFragments__append(l, i, v1) ==
    IF i[2] < i[1]
    THEN TaggedFragments_loop(l, <<>>, i[2], i[1], v1)
    ELSE TaggedFragments_loop(l, <<>>, i[1], i[2], v1)

\* TaggedFragments.append(character, value): __append(interval, [value])
\* for each interval of the character.
RECURSIVE TaggedFragments_append(_, _, _)
TaggedFragments_append(l, c, t) ==
    IF c = <<>> THEN l
    ELSE TaggedFragments_append(TaggedFragments__append(l, Head(c), <<t>>),
                                Tail(c), t)

\* TaggedFragments.__init__
TaggedInit ==
    /\ tfIntervals = <<>>
    /\ tfInputs = <<>>

TaggedIdle == TaggedInit

\* TaggedFragments.append(character, value)
TaggedFragments_append_call ==
    /\ Len(tfInputs) < MaxTaggedAppends
    /\ \E c \in Characters :
        LET t == Tag(Len(tfInputs) + 1)
        IN /\ tfIntervals' = TaggedFragments_append(tfIntervals, c, t)
           /\ tfInputs' = Append(tfInputs, <<c, t>>)
    /\ UNCHANGED otherThanTagged

TaggedNext == TaggedFragments_append_call

\* ------------------------------------------------------------------------
\* ConfigBuilder and Configuration (core/config.py)
\* ------------------------------------------------------------------------

\* longest monitor list explored
MaxMonitors == 2
\* number of calls made on one builder
MaxCalls == 4

\* Objects are kept in a small heap so that two references to one set or
\* list can be told from two equal sets or lists.  An identifier that
\* nothing refers to any more is reused.
SetIds == 1..3
ListIds == 1..3

DEFAULT_STREAM_FACTORY == "DEFAULT_STREAM_FACTORY"
StreamFactories == {DEFAULT_STREAM_FACTORY, "factory1"}

\* None, the default alphabet of the `alphabet` property, and another one
NoAlphabet == "None"
UnicodeAlphabet == "Unicode"
Alphabets == {UnicodeAlphabet, "AlphabetA"}

Monitors == {"monitor1", "monitor2"}

\* A rewriter object: its class, its constructor arguments and its
\* identity.  Objects 1 and 2 of a kind are made by the caller, the others
\* by the builder's own methods.
Rewriter(t, p, o) == [type |-> t, param |-> p, oid |-> o]
BuilderOids == 3..9

\* the rewriters the caller makes and passes to add_rewriter
UserRewriters == {Rewriter("Flatten", <<>>, 1),
                  Rewriter("Flatten", <<>>, 2),
                  Rewriter("OptimizeOr", <<"True">>, 1)}

\* the classes the caller passes to remove_rewriters
UserTypes == {"Flatten", "FullMatch"}

\* r1 == r2 for rewriters: exclusive rewriters of one class are equal
\* (the comment of lines 97-98); a SetArguments is equal to itself only
RewriterEq(r1, r2) ==
    IF r1.type = "SetArguments" THEN r1 = r2 ELSE r1.type = r2.type

NoCfg == [present |-> FALSE, rewriters |-> 0, monitors |-> 0,
          stream_factory |-> "none"]

\* ---- heap

LiveSets(w) == {w.rewriters} \cup
               (IF w.cfg.present THEN {w.cfg.rewriters} ELSE {})
LiveLists(w) == {w.monitors} \cup
                (IF w.cfg.present THEN {w.cfg.monitors} ELSE {})

Least(S) == CHOOSE i \in S : \A j \in S : i <= j

\* set() / [] : a new object
NewSet(w) == Least(SetIds \ LiveSets(w))
NewList(w) == Least(ListIds \ LiveLists(w))

\* drop the objects nothing refers to
Collect(w) ==
    [w EXCEPT !.sets = [i \in SetIds |->
                          IF i \in LiveSets(w) THEN w.sets[i] ELSE {}],
              !.lists = [i \in ListIds |->
                          IF i \in LiveLists(w) THEN w.lists[i] ELSE <<>>]]

\* a rewriter object made by one of the builder's methods
New(w, t, p) ==
    Rewriter(t, p,
             Least({o \in BuilderOids :
                      \A i \in SetIds : Rewriter(t, p, o) \notin w.sets[i]}))

\* self.__rewriters and self.__monitors, dereferenced
Rewriters(w) == w.sets[w.rewriters]
MonitorList(w) == w.lists[w.monitors]

\* ---- ConfigBuilder methods, as functions of the state w

RECURSIVE start(_)

\* clear(), lines 641-652
clear(w) ==
    LET s == NewSet(w)
        l == NewList(w)
    IN Collect([w EXCEPT !.started = TRUE,
                         !.changed = TRUE,
                         !.rewriters = s,
                         !.sets[s] = {},
                         !.monitors = l,
                         !.lists[l] = <<>>,
                         !.stream_factory = DEFAULT_STREAM_FACTORY,
                         !.alphabet = NoAlphabet])

\* An add_rewriter without the removal of lines 99-100: set.add keeps the
\* element that is already there.
add_rewriter_NoRemove(w0, r) ==
    LET w == start(w0)
    IN [w EXCEPT !.changed = TRUE,
                 !.sets[w.rewriters] =
                     IF \E x \in @ : RewriterEq(x, r) THEN @ ELSE @ \cup {r}]

\* add_rewriter(rewriter), lines 90-102
add_rewriter(w0, r) ==
    LET w == start(w0)
    IN [w EXCEPT !.changed = TRUE,
                 !.sets[w.rewriters] =
                     {x \in @ : ~RewriterEq(x, r)} \cup {r}]

\* remove_rewriter(rewriter), lines 104-112
remove_rewriter(w0, r) ==
    LET w == start(w0)
        s == NewSet(w)
    IN Collect([w EXCEPT !.changed = TRUE,
                         !.rewriters = s,
                         !.sets[s] = {x \in Rewriters(w) : x # r}])

\* remove_rewriters(type_), lines 114-122
remove_rewriters(w0, t) ==
    LET w == start(w0)
        s == NewSet(w)
    IN Collect([w EXCEPT !.changed = TRUE,
                         !.rewriters = s,
                         !.sets[s] = {x \in Rewriters(w) : x.type # t}])

\* An add_monitor that does not set the changed flag.
add_monitor_NoFlag(w0, m) ==
    LET w == start(w0)
    IN [w EXCEPT !.lists[w.monitors] = Append(@, m)]

\* add_monitor(monitor), lines 124-133
add_monitor(w0, m) ==
    LET w == start(w0)
    IN [w EXCEPT !.changed = TRUE,
                 !.lists[w.monitors] = Append(@, m)]

\* no_monitors(), lines 576-583
no_monitors(w0) ==
    LET w == start(w0)
        l == NewList(w)
    IN Collect([w EXCEPT !.changed = TRUE,
                         !.monitors = l,
                         !.lists[l] = <<>>])

\* stream_factory(stream_factory), lines 135-143
stream_factory(w0, f) ==
    LET w == start(w0)
    IN [w EXCEPT !.changed = TRUE, !.stream_factory = f]

\* the configuration property, lines 145-158: the Configuration is given
\* the builder's own set and list
configuration(w0) ==
    LET w == start(w0)
    IN Collect([w EXCEPT !.changed = FALSE,
                         !.cfg = [present |-> TRUE,
                                  rewriters |-> w.rewriters,
                                  monitors |-> w.monitors,
                                  stream_factory |-> w.stream_factory]])

\* the configuration setter, lines 160-166, given a Configuration: it has
\* no attribute raw_rewriters, so line 162 raises before anything is stored
configuration_set(w, c) == [w EXCEPT !.err = "AttributeError"]

\* the alphabet property, lines 168-179: the state after the read
alphabet_get(w) ==
    IF w.alphabet = NoAlphabet
    THEN [w EXCEPT !.alphabet = UnicodeAlphabet]
    ELSE w

\* A setter that stores a different alphabet over the one held.
alphabet_set_Overwrite(w, a) ==
    IF a = NoAlphabet \/ w.alphabet = a THEN w
    ELSE [start([w EXCEPT !.alphabet = a]) EXCEPT !.changed = TRUE]

\* the alphabet setter, lines 181-192
alphabet_set(w, a) ==
    IF a = NoAlphabet THEN w
    ELSE IF w.alphabet # NoAlphabet
    THEN IF w.alphabet # a
         THEN [w EXCEPT !.err = "ConfigurationError"]
         ELSE w
    ELSE [start([w EXCEPT !.alphabet = a]) EXCEPT !.changed = TRUE]

\* flatten(), lines 274-283
flatten(w) == add_rewriter(w, New(w, "Flatten", <<>>))

\* compose_transforms(), lines 385-394
compose_transforms(w) == add_rewriter(w, New(w, "ComposeTransforms", <<>>))

\* lexer(alphabet, discard, source), lines 346-357
lexer(w, a, discard, source) ==
    LET w1 == alphabet_set(w, a)
        w2 == alphabet_get(w1)
    IN IF w1.err # "none" THEN w1
       ELSE add_rewriter(w2, New(w2, "AddLexer",
                                 <<w2.alphabet, discard, source>>))

\* A no_memoize that calls clear().
no_memoize_Clear(w) == clear(w)

\* no_memoize(), lines 455-464
no_memoize(w) == remove_rewriters(remove_rewriters(w, "Memoize"), "AutoMemoize")

\* auto_memoize(conservative, full), lines 403-431
auto_memoize(w, conservative, full) ==
    LET w1 == no_memoize(w)
    IN add_rewriter(w1, New(w1, "AutoMemoize",
                            <<conservative, "LMemo",
                              IF full = "True" THEN "RMemo" ELSE "None">>))

\* direct_eval(spec), lines 366-376
direct_eval(w, spec) == add_rewriter(w, New(w, "DirectEvaluation", <<spec>>))

\* compile_to_nfa(force, alphabet), lines 303-314
compile_to_nfa(w, force, a) ==
    LET w1 == alphabet_set(w, a)
        w2 == alphabet_get(w1)
    IN IF w1.err # "none" THEN w1
       ELSE add_rewriter(w2, New(w2, "CompileRegexp",
                                 <<w2.alphabet, force, "NfaRegexp">>))

\* full_match(eos), lines 255-265
full_match(w, eos) == add_rewriter(w, New(w, "FullMatch", <<eos>>))

\* the element of a set of one element: it names the value of one
\* statement for the next one
The(S) == CHOOSE x \in S : TRUE

\* default(), lines 654-672: the statements in order, innermost first
default(w) ==
    The({full_match(w7, "True") : w7 \in
        {compile_to_nfa(w6, "False", NoAlphabet) : w6 \in
        {direct_eval(w5, "None") : w5 \in
        {auto_memoize(w4, "False", "False") : w4 \in
        {lexer(w3, NoAlphabet, "None", "None") : w3 \in
        {compose_transforms(w2) : w2 \in
        {flatten(w1) : w1 \in {clear(w)}}}}}}}})

\* __start(), lines 80-86
start(w) ==
    IF ~w.started
    THEN default([w EXCEPT !.started = TRUE])
    ELSE w

\* set_arguments(type_, **kargs), lines 205-211
set_arguments(w, t, k, v) == add_rewriter(w, New(w, "SetArguments", <<t, k, v>>))

\* set_alphabet_arg(alphabet), lines 219-238
set_alphabet_arg(w, a) ==
    LET w1 == IF a # NoAlphabet THEN alphabet_set(w, a) ELSE alphabet_get(w)
        w2 == set_arguments(w1, "BaseRegexp", "alphabet", w1.alphabet)
    IN IF w1.err # "none" THEN w1
       ELSE set_arguments(w2, "BaseToken", "alphabet", w1.alphabet)

\* set_block_policy_arg(block_policy), lines 240-253
set_block_policy_arg(w, block_policy) ==
    set_arguments(w, "Block", "policy", block_policy)

\* compile_to_dfa(force, alphabet), lines 292-301
compile_to_dfa(w, force, a) ==
    LET w1 == alphabet_set(w, a)
        w2 == alphabet_get(w1)
    IN IF w1.err # "none" THEN w1
       ELSE add_rewriter(w2, New(w2, "CompileRegexp",
                                 <<w2.alphabet, force, "DfaRegexp">>))

\* optimize_or(conservative), lines 323-337
optimize_or(w, conservative) ==
    add_rewriter(w, New(w, "OptimizeOr", <<conservative>>))

\* trace(enabled), lines 562-567
trace(w, enabled) == add_monitor(w, "TraceResults")

\* manage(queue_len), lines 569-574
manage(w, queue_len) == add_monitor(w, "GeneratorManager")

\* block_monitor(start_): the factory of a BlockMonitor that starts at the
\* given indent
block_monitor(start_) ==
    IF start_ = "0" THEN "block_monitor(0)" ELSE "block_monitor(4)"

\* blocks(block_policy, block_start), lines 466-485
blocks(w, block_policy, block_start) ==
    set_block_policy_arg(add_monitor(w, block_monitor(
                                          IF block_start = "None" THEN "0"
                                          ELSE block_start)),
                         IF block_policy = "None" THEN "DEFAULT_POLICY"
                         ELSE block_policy)

\* LineAwareAlphabet(alphabet, parser_factory): a new alphabet over the
\* given one
LineAwareAlphabet(a, parser_factory) ==
    IF parser_factory = "make_str_parser"
    THEN (IF a = UnicodeAlphabet THEN "LineAware(Unicode, str)"
          ELSE "LineAware(AlphabetA, str)")
    ELSE (IF a = UnicodeAlphabet THEN "LineAware(Unicode, hide_sol_eol)"
          ELSE "LineAware(AlphabetA, hide_sol_eol)")

\* line_aware(alphabet, parser_factory, discard, tabsize, block_policy,
\* block_start), lines 487-558
line_aware(w, a, parser_factory, discard, tabsize, block_policy, block_start) ==
    LET use_blocks == block_policy # "None" \/ block_start # "None"
        w1 == clear(w)
        w2 == IF use_blocks THEN blocks(w1, block_policy, block_start) ELSE w1
        pf == IF parser_factory # "None" THEN parser_factory
              ELSE IF use_blocks THEN "make_hide_sol_eol_parser"
              ELSE "make_str_parser"
        w3 == alphabet_set(w2, LineAwareAlphabet(
                                 IF a = NoAlphabet THEN UnicodeAlphabet ELSE a,
                                 pf))
        w4 == set_alphabet_arg(w3, alphabet_get(w3).alphabet)
        w5 == IF use_blocks THEN set_block_policy_arg(w4, block_policy) ELSE w4
        w6 == lexer(w5, alphabet_get(w5).alphabet, discard,
                    IF tabsize = "None"
                    THEN "LineAwareTokenSource(DEFAULT_TABSIZE)"
                    ELSE "LineAwareTokenSource(tabsize)")
    IN stream_factory(w6, "LineAwareStreamFactory")

\* ---- the builder as a state machine

\* ConfigBuilder.__init__, lines 68-78
ConfigInit ==
    /\ cb = [started |-> FALSE,
             changed |-> TRUE,
             rewriters |-> 1,
             monitors |-> 1,
             stream_factory |-> DEFAULT_STREAM_FACTORY,
             alphabet |-> NoAlphabet,
             sets |-> [i \in SetIds |-> {}],
             lists |-> [i \in ListIds |-> <<>>],
             cfg |-> NoCfg,
             err |-> "none"]
    /\ cbLast = [op |-> "init", arg |-> "none"]
    /\ cbClean = FALSE
    /\ cfgSeen = [rewriters |-> {}, monitors |-> <<>>]
    /\ cbCalls = 0

ConfigIdle == ConfigInit

\* the state a call starts from: no exception pending
Calling == [cb EXCEPT !.err = "none"]

\* the rewriters the caller can name: its own, and those it finds in the
\* Configuration it holds
Known == UserRewriters \cup
         (IF cb.cfg.present THEN cb.sets[cb.cfg.rewriters] ELSE {})

Call_add_rewriter ==
    /\ cbCalls < MaxCalls /\ cbCalls' = cbCalls + 1
    /\ \E r \in UserRewriters :
        /\ cb' = add_rewriter(Calling, r)
        /\ cbLast' = [op |-> "add_rewriter", arg |-> r]
    /\ cbClean' = FALSE
    /\ UNCHANGED cfgSeen
    /\ UNCHANGED otherThanConfig

Call_remove_rewriter ==
    /\ cbCalls < MaxCalls /\ cbCalls' = cbCalls + 1
    /\ \E r \in Known :
        /\ cb' = remove_rewriter(Calling, r)
        /\ cbLast' = [op |-> "remove_rewriter", arg |-> r]
    /\ cbClean' = FALSE
    /\ UNCHANGED cfgSeen
    /\ UNCHANGED otherThanConfig

Call_remove_rewriters ==
    /\ cbCalls < MaxCalls /\ cbCalls' = cbCalls + 1
    /\ \E t \in UserTypes :
        /\ cb' = remove_rewriters(Calling, t)
        /\ cbLast' = [op |-> "remove_rewriters", arg |-> t]
    /\ cbClean' = FALSE
    /\ UNCHANGED cfgSeen
    /\ UNCHANGED otherThanConfig

Call_add_monitor ==
    /\ cbCalls < MaxCalls /\ cbCalls' = cbCalls + 1
    /\ Len(MonitorList(cb)) < MaxMonitors
    /\ \E m \in Monitors :
        /\ cb' = add_monitor(Calling, m)
        /\ cbLast' = [op |-> "add_monitor", arg |-> m]
    /\ cbClean' = FALSE
    /\ UNCHANGED cfgSeen
    /\ UNCHANGED otherThanConfig

Call_no_monitors ==
    /\ cbCalls < MaxCalls /\ cbCalls' = cbCalls + 1
    /\ cb' = no_monitors(Calling)
    /\ cbLast' = [op |-> "no_monitors", arg |-> "none"]
    /\ cbClean' = FALSE
    /\ UNCHANGED cfgSeen
    /\ UNCHANGED otherThanConfig

Call_stream_factory ==
    /\ cbCalls < MaxCalls /\ cbCalls' = cbCalls + 1
    /\ \E f \in StreamFactories :
        /\ cb' = stream_factory(Calling, f)
        /\ cbLast' = [op |-> "stream_factory", arg |-> f]
    /\ cbClean' = FALSE
    /\ UNCHANGED cfgSeen
    /\ UNCHANGED otherThanConfig

Call_clear ==
    /\ cbCalls < MaxCalls /\ cbCalls' = cbCalls + 1
    /\ cb' = clear(Calling)
    /\ cbLast' = [op |-> "clear", arg |-> "none"]
    /\ cbClean' = FALSE
    /\ UNCHANGED cfgSeen
    /\ UNCHANGED otherThanConfig

Call_default ==
    /\ cbCalls < MaxCalls /\ cbCalls' = cbCalls + 1
    /\ cb' = default(Calling)
    /\ cbLast' = [op |-> "default", arg |-> "none"]
    /\ cbClean' = FALSE
    /\ UNCHANGED cfgSeen
    /\ UNCHANGED otherThanConfig

\* the block policies and block starts a caller gives, "None" for an
\* argument left out
BlockPolicies == {"None", "4"}
BlockStarts == {"None", "0", "4"}

Call_line_aware ==
    /\ cbCalls < MaxCalls /\ cbCalls' = cbCalls + 1
    /\ \E block_policy \in BlockPolicies, block_start \in BlockStarts :
        /\ \E made \in {line_aware(Calling, NoAlphabet, "None", "None",
                                    "None", block_policy, block_start)} :
              cb' = made
        /\ cbLast' = [op |-> "line_aware",
                      arg |-> [block_policy |-> block_policy,
                               block_start |-> block_start]]
    /\ cbClean' = FALSE
    /\ UNCHANGED cfgSeen
    /\ UNCHANGED otherThanConfig

\* reading builder.configuration
Read_configuration ==
    /\ cbCalls < MaxCalls /\ cbCalls' = cbCalls + 1
    /\ cb' = configuration(Calling)
    /\ cbLast' = [op |-> "configuration", arg |-> "none"]
    /\ cbClean' = TRUE
    /\ cfgSeen' = [rewriters |-> Rewriters(cb'),
                   monitors |-> MonitorList(cb')]
    /\ UNCHANGED otherThanConfig

\* builder.configuration = c, with the Configuration the caller holds
Set_configuration ==
    /\ cbCalls < MaxCalls /\ cbCalls' = cbCalls + 1
    /\ cb.cfg.present
    /\ cb' = configuration_set(Calling, cb.cfg)
    /\ cbLast' = [op |-> "configuration=", arg |-> "none"]
    /\ UNCHANGED <<cbClean, cfgSeen>>
    /\ UNCHANGED otherThanConfig

\* reading builder.alphabet
Read_alphabet ==
    /\ cbCalls < MaxCalls /\ cbCalls' = cbCalls + 1
    /\ cb' = alphabet_get(Calling)
    /\ cbLast' = [op |-> "alphabet", arg |-> "none"]
    /\ UNCHANGED <<cbClean, cfgSeen>>
    /\ UNCHANGED otherThanConfig

\* builder.alphabet = a.  The call modifies the alphabet when it stores a;
\* assigning None or the alphabet already held does nothing, and assigning
\* a different one raises ConfigurationError.
Set_alphabet ==
    /\ cbCalls < MaxCalls /\ cbCalls' = cbCalls + 1
    /\ \E a \in Alphabets \cup {NoAlphabet} :
        /\ cb' = alphabet_set(Calling, a)
        /\ cbLast' = [op |-> "alphabet=", arg |-> a]
        /\ cbClean' = IF a # NoAlphabet /\ cb.alphabet = NoAlphabet
                      THEN FALSE ELSE cbClean
    /\ UNCHANGED cfgSeen
    /\ UNCHANGED otherThanConfig

ConfigNext ==
    \/ Call_add_rewriter
    \/ Call_remove_rewriter
    \/ Call_remove_rewriters
    \/ Call_add_monitor
    \/ Call_no_monitors
    \/ Call_stream_factory
    \/ Call_clear
    \/ Call_default
    \/ Call_line_aware
    \/ Read_configuration
    \/ Set_configuration
    \/ Read_alphabet
    \/ Set_alphabet

\* ------------------------------------------------------------------------
\* Properties of the interval sets
\* ------------------------------------------------------------------------

\* every interval is written low end first
WellFormed(l) == \A k \in 1..Len(l) : l[k][1] <= l[k][2]

\* each interval ends before the next one starts
Ascending(l) == \A k \in 1..(Len(l) - 1) : l[k][2] < l[k + 1][1]

\* no interval starts right after the previous one ends
NonAdjacent(l) == \A k \in 1..(Len(l) - 1) : l[k + 1][1] # after(l[k][2])

\* C5: the intervals stored by a Character are pairwise disjoint, ascending
\* and non-adjacent, and cover exactly the codes of the intervals given to
\* the constructor and to append.
C5_Normalized ==
    /\ WellFormed(chIntervals)
    /\ Ascending(chIntervals)
    /\ NonAdjacent(chIntervals)
    /\ Cover(chIntervals) = chSupplied

\* C6: the fragments stored by a Fragments are pairwise disjoint and
\* ascending, cover exactly the appended intervals, and each fragment is
\* wholly inside or wholly outside every appended interval.
C6_Refinement ==
    /\ WellFormed(frIntervals)
    /\ Ascending(frIntervals)
    /\ Cover(frIntervals) = UNION {CodesOf(i) : i \in frInputs}
    /\ \A k \in 1..Len(frIntervals) : \A i \in frInputs :
          \/ CodesOf(frIntervals[k]) \subseteq CodesOf(i)
          \/ CodesOf(frIntervals[k]) \cap CodesOf(i) = {}

C6_Witness ==
    /\ frInputs = {<<0, 2>>, <<1, 3>>}
    /\ frIntervals = << <<0, 0>>, <<1, 2>>, <<3, 3>> >>

\* the tags of the appended characters that contain fragment f, in the
\* order of the appends
RECURSIVE TagsContaining(_, _)
TagsContaining(inputs, f) ==
    IF inputs = <<>> THEN <<>>
    ELSE LET rest == TagsContaining(SubSeq(inputs, 1, Len(inputs) - 1), f)
             last == inputs[Len(inputs)]
         IN IF CodesOf(f) \subseteq Cover(last[1])
            THEN Append(rest, last[2]) ELSE rest

\* C7: the tag list of each fragment of a TaggedFragments is the list of
\* the tags of the appended characters that contain the fragment, one per
\* append, in the order of the appends.
C7_TagsInOrder ==
    \A k \in 1..Len(tfIntervals) :
        tfIntervals[k][2] = TagsContaining(tfInputs, tfIntervals[k][1])

C7_Witness ==
    /\ Len(tfInputs) = 3
    /\ \E j, k \in 1..Len(tfIntervals) :
          /\ tfIntervals[j][2] = <<1, 2, 3>>
          /\ tfIntervals[k][2] = <<2>>

\* ------------------------------------------------------------------------
\* Properties of the configuration builder
\* ------------------------------------------------------------------------

\* what a Configuration built now would hold, and the alphabet the
\* `alphabet` property would return
Observable(w) == <<Rewriters(w), MonitorList(w), w.stream_factory,
                   alphabet_get(w).alphabet>>

\* C8: `changed` is False exactly when configuration has been read and no
\* call that modifies the rewriters, monitors, stream factory or alphabet
\* has been made since; while it stays False nothing a Configuration is
\* built from has changed.
C8_ChangedFlag ==
    /\ [](cb.changed <=> ~cbClean)
    /\ [][ (~cb.changed /\ ~cb'.changed) => Observable(cb') = Observable(cb) ]_vars

C8_Witness ==
    /\ ~cb.changed /\ cbClean
    /\ cbLast.op = "alphabet"
    /\ cbCalls = 3
    /\ MonitorList(cb) # <<>>

\* C9: the rewriters and monitors seen through a Configuration that was
\* returned stay what they were when it was returned.
C9_Frozen ==
    cb.cfg.present =>
        /\ cb.sets[cb.cfg.rewriters] = cfgSeen.rewriters
        /\ cb.lists[cb.cfg.monitors] = cfgSeen.monitors

\* C10: after add_rewriter(r) the builder holds r itself and no other
\* rewriter equal to r, and on a started builder the rewriters not equal to
\* r are the ones that were there before the call.
C10_LastWins ==
    /\ [](cbLast.op = "add_rewriter" =>
            /\ cbLast.arg \in Rewriters(cb)
            /\ \A x \in Rewriters(cb) : RewriterEq(x, cbLast.arg) => x = cbLast.arg)
    /\ [][ (cbCalls' # cbCalls /\ cbLast'.op = "add_rewriter" /\ cb.started)
           => {x \in Rewriters(cb') : ~RewriterEq(x, cbLast'.arg)}
                = {x \in Rewriters(cb) : ~RewriterEq(x, cbLast'.arg)} ]_vars

C10_Witness ==
    /\ cbLast = [op |-> "add_rewriter", arg |-> Rewriter("Flatten", <<>>, 2)]
    /\ Rewriter("Flatten", <<>>, 1) \in cfgSeen.rewriters
    /\ {x \in Rewriters(cb) : x.type = "Flatten"} = {Rewriter("Flatten", <<>>, 2)}
    /\ Cardinality(Rewriters(cb)) = 7

\* ------------------------------------------------------------------------
\* _OffsideLexer._tokens (lexer/blocks/lexer.py)
\* ------------------------------------------------------------------------

\* most lines in a stream
MaxLines == 2
\* most characters in a stream, line ends apart
MaxChars == 3

INDENT == "INDENT"
END == "END"

\* Characters of the input.  "a" belongs to token A, "u" to token U and to
\* the discard regexp as well, "x" to neither regexp; blanks, tabs and line
\* ends belong to the discard regexp only.
LineChars == {" ", "\t", "a", "u", "x"}
TokenChars == {"a", "u"}
DiscardChars == {" ", "\t", "\n", "u"}

\* the default tabsize of _OffsideLexer
tabsize == 8

RECURSIVE Run(_, _)
\* length of the longest prefix of l made of characters of S
Run(l, S) == IF l # <<>> /\ l[1] \in S THEN 1 + Run(Tail(l), S) ELSE 0

Drop(l, n) == SubSeq(l, n + 1, Len(l))
Take(l, n) == SubSeq(l, 1, n)

\* self.t_regexp.match(line_stream): the longest token at the head of l
\* (token A is a+, token U is a single u), or None (ok = FALSE)
t_regexp_match(l) ==
    IF l # <<>> /\ l[1] = "a"
    THEN [ok |-> TRUE, terminals |-> "A", size |-> Run(l, {"a"})]
    ELSE IF l # <<>> /\ l[1] = "u"
    THEN [ok |-> TRUE, terminals |-> "U", size |-> 1]
    ELSE [ok |-> FALSE, terminals |-> "none", size |-> 0]

\* the discard regexp of offside_rewriter (offside/lexer.py 70-71), and the
\* empty string, which line_aware documents as the way to disable
\* discarding (core/config.py 507-510)
DefaultDiscard == "[$ \\t\\r\\n]"
Discards == {DefaultDiscard, ""}

\* self.s_regexp.size_match(line_stream): the longest run of discarded
\* characters at the head of l, or None (ok = FALSE); the empty regexp
\* matches the empty string at the head of every l
s_regexp_size_match(l) ==
    IF lxDiscard = ""
    THEN [ok |-> TRUE, terminals |-> "discard", size |-> 0]
    ELSE IF Run(l, DiscardChars) > 0
    THEN [ok |-> TRUE, terminals |-> "discard", size |-> Run(l, DiscardChars)]
    ELSE [ok |-> FALSE, terminals |-> "none", size |-> 0]

RECURSIVE Expand(_)
\* indent.replace('\t', self._tab), lines 101-102
Expand(l) ==
    IF l = <<>> THEN <<>>
    ELSE IF l[1] = "\t" THEN [i \in 1..tabsize |-> " "] \o Expand(Tail(l))
    ELSE <<l[1]>> \o Expand(Tail(l))

RECURSIVE Contents(_)
\* the character sequences of length n
Contents(n) ==
    IF n = 0 THEN {<<>>}
    ELSE {<<c>> \o l : c \in LineChars, l \in Contents(n - 1)}

RECURSIVE StreamsNL(_, _)
\* the streams of at most k lines and at most n characters, each line ended
\* by a line end
StreamsNL(k, n) ==
    IF k = 0 THEN {<<>>}
    ELSE {<<>>} \cup
         UNION {{<<l \o <<"\n">> >> \o s : l \in Contents(j), s \in StreamsNL(k - 1, n - j)}
                : j \in 0..n}

\* s_line never returns an empty line: the last line of a stream may lack
\* its line end when it has other characters
Streams ==
    LET S == StreamsNL(MaxLines, MaxChars)
    IN  S \cup {[s EXCEPT ![Len(s)] = Take(s[Len(s)], Len(s[Len(s)]) - 1)]
                : s \in {t \in S : t # <<>> /\ Len(t[Len(t)]) > 1}}

TokenPair(terminals, text, line, pos) ==
    [terminals |-> terminals, text |-> text, line |-> line, pos |-> pos]

Location(line, pos) == [line |-> line, pos |-> pos]
NoLocation == Location(0, 0)

\* {location} of s_fmt(stream, ...), line 123: `stream` is the stream the
\* current line was taken from (line 93), which moves on only at line 120
s_fmt_location(lineno) == Location(lineno, 0)

LexInit ==
    /\ lxInput \in Streams
    /\ lxDiscard = DefaultDiscard
    /\ lxErr = NoLocation
    /\ lxStream = lxInput
    /\ lxLine = <<>>
    /\ lxLineNo = 0
    /\ lxPos = 0
    /\ lxPc = "line"
    /\ lxOut = <<>>
    /\ lxSkipped = {}

LexIdle ==
    /\ lxInput = <<>>
    /\ lxDiscard = DefaultDiscard
    /\ lxErr = NoLocation
    /\ lxStream = <<>>
    /\ lxLine = <<>>
    /\ lxLineNo = 0
    /\ lxPos = 0
    /\ lxPc = "line"
    /\ lxOut = <<>>
    /\ lxSkipped = {}

\* A lexer that yields INDENT only when the line starts with white space.
Lex_Indent_OnlyIfSpace ==
    /\ lxPc = "line"
    /\ lxStream # <<>>
    /\ LET line == Head(lxStream)
           m == s_regexp_size_match(line)
           size == IF m.ok THEN m.size ELSE 0
           indent == Expand(Take(line, size))
       IN  /\ lxOut' = IF size = 0 THEN lxOut
                       ELSE Append(lxOut, TokenPair(INDENT, indent, lxLineNo + 1, 0))
           /\ lxLine' = Drop(line, size)
           /\ lxPos' = size
    /\ lxStream' = Tail(lxStream)
    /\ lxLineNo' = lxLineNo + 1
    /\ lxPc' = "inline"
    /\ lxSkipped' = {}
    /\ UNCHANGED <<lxInput, lxDiscard, lxErr>>
    /\ UNCHANGED otherThanLex

\* Resumed at the head of the outer loop with lines left (90-105): take the
\* next line, measure its leading white space (size 0 when size_match
\* returns None, 96-99), expand tabs and yield INDENT.
Lex_Indent ==
    /\ lxPc = "line"
    /\ lxStream # <<>>
    /\ LET line == Head(lxStream)
           m == s_regexp_size_match(line)
           size == IF m.ok THEN m.size ELSE 0
           indent == Expand(Take(line, size))
       IN  /\ lxOut' = Append(lxOut, TokenPair(INDENT, indent, lxLineNo + 1, 0))
           /\ lxLine' = Drop(line, size)
           /\ lxPos' = size
    /\ lxStream' = Tail(lxStream)
    /\ lxLineNo' = lxLineNo + 1
    /\ lxPc' = "inline"
    /\ lxSkipped' = {}
    /\ UNCHANGED <<lxInput, lxDiscard, lxErr>>
    /\ UNCHANGED otherThanLex

\* Resumed at the head of the outer loop with the stream empty (90): the
\* generator returns.
Lex_Finish ==
    /\ lxPc = "line"
    /\ lxStream = <<>>
    /\ lxPc' = "done"
    /\ lxSkipped' = {}
    /\ UNCHANGED <<lxInput, lxDiscard, lxErr, lxStream, lxLine, lxLineNo, lxPos, lxOut>>
    /\ UNCHANGED otherThanLex

\* A lexer that tries the discard regexp before the token regexp.
Lexer_try_DiscardFirst(l) ==
    LET t == t_regexp_match(l)
        s == s_regexp_size_match(l)
    IN  IF s.ok THEN s
        ELSE IF t.ok THEN t
        ELSE [ok |-> FALSE, terminals |-> "none", size |-> 0]

\* One pass of the inner loop body (109-115) at the head of l: the token
\* regexp; when it returns None (TypeError, 113) the discard regexp; when
\* that returns None as well the TypeError leaves the loop (ok = FALSE).
Lexer_try(l) ==
    LET t == t_regexp_match(l)
        s == s_regexp_size_match(l)
    IN  IF t.ok THEN t
        ELSE IF s.ok THEN s
        ELSE [ok |-> FALSE, terminals |-> "none", size |-> 0]

RECURSIVE Lexer_scan(_, _, _)
\* The inner loop (108-116) from line_stream l at offset pos, up to the next
\* yield or exception; sk collects the offsets where the discard regexp was
\* applied.
Lexer_scan(l, pos, sk) ==
    IF l = <<>>
    THEN [kind |-> "end", terminals |-> END, size |-> 0, line |-> l,
          pos |-> pos, skipped |-> sk]
    ELSE LET r == Lexer_try(l)
         IN  IF ~r.ok
             THEN [kind |-> "error", terminals |-> "none", size |-> 0,
                   line |-> l, pos |-> pos, skipped |-> sk]
             ELSE IF r.terminals = "discard" /\ r.size = 0
             THEN [kind |-> "loop", terminals |-> "none", size |-> 0,
                   line |-> l, pos |-> pos, skipped |-> sk \cup {pos}]
             ELSE IF r.terminals = "discard"
             THEN Lexer_scan(Drop(l, r.size), pos + r.size,
                             sk \cup {pos})
             ELSE [kind |-> "token", terminals |-> r.terminals,
                   size |-> r.size, line |-> l, pos |-> pos, skipped |-> sk]

\* Resumed inside a line, and a token is found (110-112).
Lex_Token ==
    /\ lxPc = "inline"
    /\ LET r == Lexer_scan(lxLine, lxPos, {})
       IN  /\ r.kind = "token"
           /\ lxOut' = Append(lxOut, TokenPair(r.terminals, Take(r.line, r.size),
                                           lxLineNo, r.pos))
           /\ lxLine' = Drop(r.line, r.size)
           /\ lxPos' = r.pos + r.size
           /\ lxSkipped' = r.skipped
    /\ UNCHANGED <<lxInput, lxDiscard, lxErr, lxStream, lxLineNo, lxPc>>
    /\ UNCHANGED otherThanLex

\* Resumed inside a line, and the line ends (108, 119): yield END; the
\* stream moves to the next line on the following resumption (120).
Lex_End ==
    /\ lxPc = "inline"
    /\ LET r == Lexer_scan(lxLine, lxPos, {})
       IN  /\ r.kind = "end"
           /\ lxOut' = Append(lxOut, TokenPair(END, <<>>, lxLineNo, r.pos))
           /\ lxLine' = r.line
           /\ lxPos' = r.pos
           /\ lxSkipped' = r.skipped
    /\ lxPc' = "line"
    /\ UNCHANGED <<lxInput, lxDiscard, lxErr, lxStream, lxLineNo>>
    /\ UNCHANGED otherThanLex

\* Resumed inside a line, and neither regexp matches: the TypeError of line
\* 114 reaches line 122 and RuntimeLexerError leaves the generator.
Lex_Error ==
    /\ lxPc = "inline"
    /\ LET r == Lexer_scan(lxLine, lxPos, {})
       IN  /\ r.kind = "error"
           /\ lxLine' = r.line
           /\ lxPos' = r.pos
           /\ lxSkipped' = r.skipped
    /\ lxPc' = "RuntimeLexerError"
    /\ lxErr' = s_fmt_location(lxLineNo)
    /\ UNCHANGED <<lxInput, lxDiscard, lxStream, lxLineNo, lxOut>>
    /\ UNCHANGED otherThanLex

\* Resumed inside a line where the token regexp does not match and the
\* discard regexp matches the empty string: line 116 sets line_stream to the
\* stream it already was, and the loop of lines 108-116 runs again from the
\* same place without reaching a yield.
Lex_Loop ==
    /\ lxPc \in {"inline", "looping"}
    /\ LET r == Lexer_scan(lxLine, lxPos, {})
       IN  /\ r.kind = "loop"
           /\ lxLine' = r.line
           /\ lxPos' = r.pos
           /\ lxSkipped' = r.skipped
    /\ lxPc' = "looping"
    /\ UNCHANGED <<lxInput, lxDiscard, lxErr, lxStream, lxLineNo, lxOut>>
    /\ UNCHANGED otherThanLex

\* a lexer made with either discard regexp
LexInitAny ==
    /\ lxInput \in Streams
    /\ lxDiscard \in Discards
    /\ lxErr = NoLocation
    /\ lxStream = lxInput
    /\ lxLine = <<>>
    /\ lxLineNo = 0
    /\ lxPos = 0
    /\ lxPc = "line"
    /\ lxOut = <<>>
    /\ lxSkipped = {}

LexNext ==
    \/ Lex_Indent
    \/ Lex_Finish
    \/ Lex_Token
    \/ Lex_End
    \/ Lex_Error

LexAnyNext ==
    \/ LexNext
    \/ Lex_Loop

\* ------------------------------------------------------------------------
\* Claims about _OffsideLexer._tokens
\* ------------------------------------------------------------------------

\* the tokens yielded for line i, in order
TokensOfLine(i) == SelectSeq(lxOut, LAMBDA t : t.line = i)

\* the offsets of line i covered by the tokens ts
Covered(ts) ==
    UNION {(ts[k].pos)..(ts[k].pos + Len(ts[k].text) - 1) : k \in 1..Len(ts)}

\* C11: the tokens come line by line, in the order of the lines; each line
\* read gives exactly one INDENT first (with the expanded leading white
\* space, empty when there is none), then its tokens from left to right,
\* then exactly one END, and nothing of a later line precedes that END; when
\* the lexer returns every line of the stream has been tokenized in full.
C11_LineTokens ==
    /\ \A k \in 1..(Len(lxOut) - 1) :
          /\ lxOut[k].line <= lxOut[k + 1].line
          /\ lxOut[k].terminals = END => lxOut[k].line < lxOut[k + 1].line
    /\ \A i \in 1..lxLineNo :
          LET ts == TokensOfLine(i)
              line == lxInput[i]
              lead == Run(line, DiscardChars)
              complete == ts[Len(ts)].terminals = END
          IN  /\ ts # <<>>
              /\ ts[1] = TokenPair(INDENT, Expand(Take(line, lead)), i, 0)
              /\ \A k \in 2..Len(ts) :
                    /\ ts[k].terminals # INDENT
                    /\ ts[k - 1].terminals # END
                    /\ ts[k].pos >= lead
                    /\ k > 2 => ts[k].pos > ts[k - 1].pos
                    /\ ts[k].terminals # END =>
                          /\ ts[k].text # <<>>
                          /\ ts[k].text = SubSeq(line, ts[k].pos + 1,
                                                 ts[k].pos + Len(ts[k].text))
              /\ (i < lxLineNo \/ lxPc \in {"line", "done"}) => complete
              /\ complete =>
                    \A p \in lead..(Len(line) - 1) :
                       line[p + 1] \in TokenChars \ DiscardChars
                          => p \in Covered(SubSeq(ts, 2, Len(ts) - 1))
    /\ lxPc = "done" => lxLineNo = Len(lxInput)

\* a stream of two lines, the first with no leading white space, lexed to
\* the end
C11_Witness ==
    /\ lxPc = "done"
    /\ lxInput = << <<"a", "\n">>, <<" ", "a">> >>
    /\ lxOut = << TokenPair(INDENT, <<>>, 1, 0), TokenPair("A", <<"a">>, 1, 0),
                  TokenPair(END, <<>>, 1, 2),
                  TokenPair(INDENT, <<" ">>, 2, 0), TokenPair("A", <<"a">>, 2, 1),
                  TokenPair(END, <<>>, 2, 2) >>

\* the rest of the current line from offset p
RestAt(p) == Drop(lxInput[lxLineNo], p)

\* C12: inside a line the discard regexp is applied only where the token
\* regexp does not match, and the text it consumes gives no token; a token
\* is yielded where the token regexp matches; where neither matches the
\* lexer raises RuntimeLexerError, and after that no token is yielded.
C12_TokenThenDiscard ==
    /\ [][ (lxPc = "inline" /\ lexVars' # lexVars) =>
             /\ \A p \in lxSkipped' :
                   /\ ~t_regexp_match(RestAt(p)).ok
                   /\ s_regexp_size_match(RestAt(p)).ok
                   /\ lxPos <= p /\ p < lxPos'
             /\ \/ lxOut' = lxOut
                \/ /\ Len(lxOut') = Len(lxOut) + 1
                   /\ SubSeq(lxOut', 1, Len(lxOut)) = lxOut
                   /\ lxOut'[Len(lxOut')].pos \notin lxSkipped'
                   /\ lxOut'[Len(lxOut')].terminals # END =>
                        LET t == lxOut'[Len(lxOut')]
                            m == t_regexp_match(RestAt(t.pos))
                        IN  /\ m.ok
                            /\ t.terminals = m.terminals
                            /\ t.text = Take(RestAt(t.pos), m.size)
             /\ lxOut' = lxOut <=> lxPc' = "RuntimeLexerError"
             /\ lxPc' = "RuntimeLexerError" =>
                   /\ RestAt(lxPos') # <<>>
                   /\ ~t_regexp_match(RestAt(lxPos')).ok
                   /\ ~s_regexp_size_match(RestAt(lxPos')).ok
             /\ lxPc' = "line" =>
                   /\ RestAt(lxPos') = <<>>
                   /\ lxOut'[Len(lxOut')].terminals = END ]_vars
    /\ [][ lxPc = "RuntimeLexerError" =>
             lxPc' = "RuntimeLexerError" /\ lxOut' = lxOut ]_vars

\* a line where a token is yielded, white space is then discarded, and the
\* lexer fails on the next character
C12_Witness ==
    /\ lxPc = "RuntimeLexerError"
    /\ lxInput = << <<"a", " ", "x", "\n">> >>
    /\ lxOut = << TokenPair(INDENT, <<>>, 1, 0), TokenPair("A", <<"a">>, 1, 0) >>
    /\ lxSkipped = {1}

\* ------------------------------------------------------------------------
\* Block and Indent (lexer/offside/matchers.py)
\* ------------------------------------------------------------------------

\* longest indent text at the head of a stream
MaxIndent == 1
\* most results the lines of one Block invocation give
MaxBlockResults == 1

NO_BLOCKS == -1
DEFAULT_TABSIZE == 8

\* Two parses share the matcher graph; each has its own stream and its own
\* BlockMonitor.
Parses == {1, 2}

\* s_key(stream_in) at the place where the Block is invoked
Keys == {"k1", "k2"}

\* Block.__monitor is None
NoMonitor == 0
\* Indent.__current_indent: None, or the level read from a monitor
NoIndent == [set |-> FALSE, n |-> 0]
SomeIndent(n) == [set |-> TRUE, n |-> n]

\* The generators of one parse.  The root matcher invokes the Block ("bo")
\* and, when that is exhausted, invokes it again at the same place ("bl");
\* the lines of "bo" are left recursive and invoke the Block at the same
\* place ("bn").  Each Block invocation has its Indent generator, the Token
\* generator under it (Indent._match calls Token._match) and the generator
\* of And(*lines).
BlockSlots == {"bo", "bn", "bl"}
IndentSlots == {"io", "in", "il"}
TokenSlots == {"to", "tn", "tl"}
LinesSlots == {"lo", "ln", "ll"}
Slots == {"root"} \cup BlockSlots \cup IndentSlots \cup TokenSlots \cup LinesSlots

IndentOf(b) == CASE b = "bo" -> "io" [] b = "bn" -> "in" [] OTHER -> "il"
LinesOf(b) == CASE b = "bo" -> "lo" [] b = "bn" -> "ln" [] OTHER -> "ll"
TokenOf(i) == CASE i = "io" -> "to" [] i = "in" -> "tn" [] OTHER -> "tl"

\* what the trampoline holds in `value`
BV(kind, name, text) == [kind |-> kind, name |-> name, text |-> text]
BGen(s) == BV("gen", s, <<>>)
BVal(text) == BV("val", "result", text)
BExc(e) == BV("exc", e, <<>>)
BNone == BV("none", "none", <<>>)

\* DEFAULT_POLICY = constant_indent(DEFAULT_TABSIZE)
policy(current, indent) == current + DEFAULT_TABSIZE

\* BlockMonitor.indent: the innermost level
MonitorIndent(levels, p) == levels[p][Len(levels[p])]

\* the text of an INDENT token: blanks, and perhaps a line end
IndentText(n, nl) == [i \in 1..n |-> " "] \o (IF nl THEN <<"\n">> ELSE <<>>)

\* what one operation on a generator does: the item it yields or the
\* exception it raises, where it is suspended afterwards, the node fields and
\* monitor levels it leaves, and which branch of the code ran
Did(out, at, node, levels, hold, note) ==
    [out |-> out, pc |-> at, node |-> node, levels |-> levels,
     hold |-> hold, note |-> note]

\* Block.on_push / Indent.on_push, called by the monitor of parse p when the
\* trampoline pushes generator g (Token generators of an Indent carry the
\* Indent as their matcher)
on_push(g, p, node, levels) ==
    IF g \in BlockSlots THEN [node EXCEPT !.monitor = p]
    ELSE IF g \in IndentSlots \cup TokenSlots
    THEN [node EXCEPT !.current_indent = SomeIndent(MonitorIndent(levels, p))]
    ELSE node

\* Block.on_pop / Indent.on_pop, called by the monitor of parse p when the
\* trampoline pops generator g
on_pop(g, p, node, levels) ==
    IF g \in BlockSlots
    THEN IF node.monitor # NoMonitor
         THEN [node |-> [node EXCEPT !.monitor = NoMonitor], levels |-> levels]
         ELSE [node |-> node,
               levels |-> [levels EXCEPT ![p] = SubSeq(@, 1, Len(@) - 1)]]
    ELSE [node |-> node, levels |-> levels]

\* the root matcher of parse p
Root_resume(p, at, op, arg, node, levels, hold) ==
    IF at = "new" /\ op = "next"
    THEN {Did(BGen("bo"), "wait_bo", node, levels, hold, "invoke")}
    ELSE IF at \in {"wait_bo", "wait_bl"} /\ op = "send"
    THEN {Did(arg, IF at = "wait_bo" THEN "got_bo" ELSE "got_bl",
              node, levels, hold, "result")}
    ELSE IF at \in {"got_bo", "got_bl"} /\ op = "next"
    THEN {Did(BGen(IF at = "got_bo" THEN "bo" ELSE "bl"),
              IF at = "got_bo" THEN "wait_bo" ELSE "wait_bl",
              node, levels, hold, "more")}
    ELSE IF at = "wait_bo" /\ op = "throw" /\ arg.name = "StopIteration"
    THEN {Did(BGen("bl"), "wait_bl", node, levels, hold, "invoke")}
    ELSE IF op = "throw"
    THEN {Did(arg, "done", node, levels, hold, "raise")}
    ELSE {Did(BExc("StopIteration"), "done", node, levels, hold, "raise")}

\* A Block that does not look for a nested call.
Block_first_NoCheck(p, g, node, levels, hold) ==
    {Did(BGen(IndentOf(g)), "wait_indent",
         [node EXCEPT !.streams = @ \cup {bkIn[p].key}], levels,
         hold \cup {<<bkIn[p].key, p, g>>}, "added")}

\* Block._match up to its first yield, lines 221-227: a key already in
\* __streams ends the generator at once; otherwise the key is added and the
\* Indent matcher is yielded.
Block_first(p, g, node, levels, hold) ==
    IF bkIn[p].key \in node.streams
    THEN {Did(BExc("StopIteration"), "done", node, levels, hold, "nested")}
    ELSE {Did(BGen(IndentOf(g)), "wait_indent",
              [node EXCEPT !.streams = @ \cup {bkIn[p].key}], levels,
              hold \cup {<<bkIn[p].key, p, g>>}, "added")}

\* the finally clause of Block._match, lines 236-237
Block_finally(p, g, node, hold) ==
    [node |-> [node EXCEPT !.streams = @ \ {bkIn[p].key}],
     hold |-> hold \ {<<bkIn[p].key, p, g>>}]

\* Block._match, lines 214-237, resumed at `at` by op(arg)
Block_resume(p, g, at, op, arg, node, levels, hold) ==
    IF at = "new" /\ op = "next"
    THEN Block_first(p, g, node, levels, hold)
    ELSE IF at = "wait_indent" /\ op = "send"
    THEN \* lines 228-233
         IF node.monitor = NoMonitor
         THEN LET f == Block_finally(p, g, node, hold)
              IN  {Did(BExc("AttributeError"), "done", f.node, levels, f.hold,
                       "raise")}
         ELSE LET m == node.monitor
                  current == MonitorIndent(levels, m)
              IN  {Did(BGen(LinesOf(g)), "wait_lines",
                       [node EXCEPT !.monitor = NoMonitor],
                       [levels EXCEPT ![m] = Append(@, policy(current, arg.text))],
                       hold, "push_level")}
    ELSE IF at = "wait_lines" /\ op = "send"
    THEN \* line 235, the outer yield
         {Did(arg, "yielded", node, levels, hold, "result")}
    ELSE IF at = "yielded" /\ op = "next"
    THEN \* line 235, the inner yield
         {Did(BGen(LinesOf(g)), "wait_lines", node, levels, hold, "more")}
    ELSE IF at \in {"wait_indent", "wait_lines", "yielded"}
    THEN \* an exception thrown in: the finally clause, then it propagates
         LET f == Block_finally(p, g, node, hold)
         IN  {Did(IF op = "throw" THEN arg ELSE BExc("TypeError"), "done",
                  f.node, levels, f.hold, "released")}
    ELSE {Did(IF op = "throw" THEN arg ELSE BExc("StopIteration"), "done",
              node, levels, hold, "raise")}

\* indent[0] with one trailing line end removed, line 90
StripNewline(text) ==
    IF text # <<>> /\ text[Len(text)] = "\n"
    THEN SubSeq(text, 1, Len(text) - 1) ELSE text

\* An Indent that compares the indent text with its line end.
Indent_accepts_NoStrip(text, current) ==
    current = NO_BLOCKS \/ Len(text) = current

\* the test of lines 90-92 on the indent text the token gave
Indent_accepts(text, current) ==
    current = NO_BLOCKS \/ Len(StripNewline(text)) = current

\* Indent._match, lines 75-100, resumed at `at` by op(arg)
Indent_resume(p, g, at, op, arg, node, levels, hold) ==
    IF at = "new" /\ op = "next"
    THEN IF ~node.current_indent.set
         THEN {Did(BExc("OffsideError"), "done", node, levels, hold, "raise")}
         ELSE {Did(BGen(TokenOf(g)), "wait_token", node, levels, hold, "start")}
    ELSE IF at = "wait_token" /\ op = "send"
    THEN IF Indent_accepts(arg.text, node.current_indent.n)
         THEN {Did(BVal(StripNewline(arg.text)), "yielded", node, levels, hold,
                   "match")}
         ELSE {Did(BGen(TokenOf(g)), "wait_token", node, levels, hold,
                   "mismatch")}
    ELSE IF at = "yielded" /\ op = "next"
    THEN {Did(BGen(TokenOf(g)), "wait_token", node, levels, hold, "more")}
    ELSE IF op = "throw"
    THEN {Did(arg, "done", node, levels, hold, "raise")}
    ELSE {Did(BExc("StopIteration"), "done", node, levels, hold, "raise")}

\* Token._match under an Indent (lexer/matchers.py 169-183, content is
\* None): one result when the head of the stream is an INDENT token
Token_resume(p, g, at, op, arg, node, levels, hold) ==
    IF at = "new" /\ op = "next" /\ bkIn[p].head.indent
    THEN {Did(BVal(IndentText(bkIn[p].head.len, bkIn[p].head.nl)), "yielded",
              node, levels, hold, "token")}
    ELSE {Did(IF op = "throw" THEN arg ELSE BExc("StopIteration"), "done",
              node, levels, hold, "raise")}

\* And(*lines)._match: the lines of "bo" may invoke the Block again at the
\* same place, at first or when asked for a further result; any lines may
\* give a result or fail
Lines_resume(p, g, at, op, arg, node, levels, hold) ==
    LET result == IF bkResults[p] < MaxBlockResults
                  THEN {Did(BVal(<<>>), "yielded", node, levels, hold, "result")}
                  ELSE {}
        stop == {Did(BExc("StopIteration"), "done", node, levels, hold, "raise")}
        nested == IF g = "lo" /\ bkGen[p]["bn"] = "new"
                  THEN {Did(BGen("bn"), "wait_nested", node, levels, hold, "invoke")}
                  ELSE {}
    IN  IF at \in {"new", "yielded"} /\ op = "next"
        THEN nested \cup result \cup stop
        ELSE IF at = "wait_nested" /\ op = "send"
        THEN {Did(arg, "yielded", node, levels, hold, "result")}
        ELSE IF at = "wait_nested" /\ op = "throw" /\ arg.name = "StopIteration"
        THEN result \cup stop
        ELSE IF op = "throw"
        THEN {Did(arg, "done", node, levels, hold, "raise")}
        ELSE stop

\* GeneratorWrapper.__next__ / send / throw on generator g of parse p
BkResume(p, g, op, arg, node, levels, hold) ==
    LET at == bkGen[p][g]
    IN  IF g = "root" THEN Root_resume(p, at, op, arg, node, levels, hold)
        ELSE IF g \in BlockSlots
        THEN Block_resume(p, g, at, op, arg, node, levels, hold)
        ELSE IF g \in IndentSlots
        THEN Indent_resume(p, g, at, op, arg, node, levels, hold)
        ELSE IF g \in TokenSlots
        THEN Token_resume(p, g, at, op, arg, node, levels, hold)
        ELSE Lines_resume(p, g, at, op, arg, node, levels, hold)

\* the head tokens a stream can have where the Block is invoked
Heads ==
    {[indent |-> FALSE, len |-> 0, nl |-> FALSE]}
      \cup {[indent |-> TRUE, len |-> n, nl |-> b] : n \in 0..MaxIndent, b \in BOOLEAN}

\* no level: the invocation has not called push_level
NoLevel == NO_BLOCKS - 1

\* the level that push_level was given, line 229, from the levels before and
\* after the call
Pushed(old, new) ==
    LET m == CHOOSE q \in Parses : Len(new[q]) > Len(old[q])
    IN  new[m][Len(new[m])]

\* the start levels of a BlockMonitor (block_start)
StartLevels == {NO_BLOCKS, 0, 1}

BlockInit ==
    /\ bkIn \in [Parses -> [key : Keys, head : Heads, start : StartLevels]]
    /\ bkIn[1].key = "k1"
    /\ bkNode = [monitor |-> NoMonitor, streams |-> {}, current_indent |-> NoIndent]
    /\ bkLevels = [p \in Parses |-> <<bkIn[p].start>>]
    /\ bkGen = [p \in Parses |-> [g \in Slots |-> "new"]]
    /\ bkStack = [p \in Parses |-> <<>>]
    /\ bkValue = [p \in Parses |-> BNone]
    /\ bkEbr = [p \in Parses |-> FALSE]
    /\ bkPc = [p \in Parses |-> "idle"]
    /\ bkResults = [p \in Parses |-> 0]
    /\ bkRunning = 0
    /\ bkHold = {}
    /\ bkLast = [p |-> 0, g |-> "none", op |-> "none", arg |-> BNone,
                 out |-> BNone, note |-> "none", current |-> NoIndent]
    /\ bkLevelOf = [p \in Parses |-> [g \in BlockSlots |-> NoLevel]]

BlockIdle ==
    /\ bkIn = [p \in Parses |->
                 [key |-> "k1", head |-> [indent |-> FALSE, len |-> 0, nl |-> FALSE],
                  start |-> NO_BLOCKS]]
    /\ bkNode = [monitor |-> NoMonitor, streams |-> {}, current_indent |-> NoIndent]
    /\ bkLevels = [p \in Parses |-> <<NO_BLOCKS>>]
    /\ bkGen = [p \in Parses |-> [g \in Slots |-> "new"]]
    /\ bkStack = [p \in Parses |-> <<>>]
    /\ bkValue = [p \in Parses |-> BNone]
    /\ bkEbr = [p \in Parses |-> FALSE]
    /\ bkPc = [p \in Parses |-> "idle"]
    /\ bkResults = [p \in Parses |-> 0]
    /\ bkRunning = 0
    /\ bkHold = {}
    /\ bkLast = [p |-> 0, g |-> "none", op |-> "none", arg |-> BNone,
                 out |-> BNone, note |-> "none", current |-> NoIndent]
    /\ bkLevelOf = [p \in Parses |-> [g \in BlockSlots |-> NoLevel]]

\* the Block invocations of parse p that have added their key and not ended
InProgress(p) ==
    {g \in BlockSlots : bkGen[p][g] \in {"wait_indent", "wait_lines", "yielded"}}

\* The generators of parse p are closed or collected: GeneratorExit runs
\* the finally clause of every Block invocation still in progress.
BkCloseAll(p, node, hold) ==
    IF InProgress(p) = {} THEN [node |-> node, hold |-> hold]
    ELSE LET g == CHOOSE x \in InProgress(p) : TRUE
             f == Block_finally(p, g, node, hold)
         IN  [node |-> f.node, hold |-> f.hold \ {h \in f.hold : h[2] = p}]

\* The state after operation op(arg) on generator g of parse p did d, seen
\* from the trampoline (parser.py 147, 165, 173 and the handler at 192-203:
\* exception_being_raised is False at each of these calls).
BkApplied(p, g, op, arg, d, pushed) ==
    /\ bkGen' = [bkGen EXCEPT ![p][g] = d.pc]
    /\ bkNode' = d.node
    /\ bkLevels' = d.levels
    /\ bkHold' = d.hold
    /\ bkValue' = [bkValue EXCEPT ![p] = d.out]
    /\ bkEbr' = [bkEbr EXCEPT ![p] = (d.out.kind = "exc")]
    /\ bkLast' = [p |-> p, g |-> g, op |-> op, arg |-> arg, out |-> d.out,
                  note |-> d.note, current |-> pushed.current_indent]
    /\ bkLevelOf' = IF d.note = "push_level"
                    THEN [bkLevelOf EXCEPT ![p][g] = Pushed(bkLevels, d.levels)]
                    ELSE bkLevelOf

\* The consumer asks parse p for its first or next result (parser.py
\* 125-130, 189): the trampoline runs with value = main.
Bk_Request ==
    /\ bkRunning = 0
    /\ \E p \in Parses :
          /\ bkPc[p] \in {"idle", "yielded"}
          /\ bkRunning' = p
          /\ bkPc' = [bkPc EXCEPT ![p] = "loop"]
          /\ bkValue' = [bkValue EXCEPT ![p] = BGen("root")]
          /\ bkEbr' = [bkEbr EXCEPT ![p] = FALSE]
    /\ UNCHANGED <<bkIn, bkNode, bkLevels, bkGen, bkStack, bkResults, bkHold, bkLast, bkLevelOf>>
    /\ UNCHANGED otherThanBlock

\* One iteration with a coroutine in `value` (parser.py 139-149): the
\* monitor's push, the stack's append, then next().
Bk_Push ==
    /\ bkRunning # 0
    /\ LET p == bkRunning
           g == bkValue[p].name
           node == on_push(g, p, bkNode, bkLevels)
       IN  /\ bkPc[p] = "loop"
           /\ bkValue[p].kind = "gen"
           /\ IF g \in IndentSlots \cup TokenSlots /\ bkLevels[p] = <<>>
              THEN \* Indent.on_push reads monitor.indent of a monitor with no
                   \* level left: the exception leaves monitor.push (line
                   \* 141) and is caught at line 192
                   /\ bkValue' = [bkValue EXCEPT ![p] = BExc("IndexError")]
                   /\ bkEbr' = [bkEbr EXCEPT ![p] = TRUE]
                   /\ bkLast' = [p |-> p, g |-> g, op |-> "push", arg |-> BNone,
                                 out |-> BExc("IndexError"), note |-> "raise",
                                 current |-> bkNode.current_indent]
                   /\ UNCHANGED <<bkStack, bkGen, bkNode, bkLevels, bkHold,
                                  bkLevelOf>>
              ELSE /\ bkStack' = [bkStack EXCEPT ![p] = Append(@, g)]
                   /\ \E d \in BkResume(p, g, "next", BNone, node, bkLevels, bkHold) :
                         BkApplied(p, g, "next", BNone, d, node)
    /\ UNCHANGED <<bkIn, bkPc, bkResults, bkRunning>>
    /\ UNCHANGED otherThanBlock

\* One iteration with a result in `value` and coroutines left under the
\* top (parser.py 154-173): pop, the monitor's pop, then send().
Bk_PopSend ==
    /\ bkRunning # 0
    /\ LET p == bkRunning
           popped == bkStack[p][Len(bkStack[p])]
           r == on_pop(popped, p, bkNode, bkLevels)
           top == bkStack[p][Len(bkStack[p]) - 1]
       IN  /\ bkPc[p] = "loop"
           /\ bkValue[p].kind = "val"
           /\ Len(bkStack[p]) > 1
           /\ bkStack' = [bkStack EXCEPT ![p] = SubSeq(@, 1, Len(@) - 1)]
           /\ \E d \in BkResume(p, top, "send", bkValue[p], r.node, r.levels, bkHold) :
                 BkApplied(p, top, "send", bkValue[p], d, r.node)
    /\ UNCHANGED <<bkIn, bkPc, bkResults, bkRunning>>
    /\ UNCHANGED otherThanBlock

\* One iteration with an exception in `value` and coroutines left under
\* the top (parser.py 154-165): pop, the monitor's pop, then throw().
Bk_PopThrow ==
    /\ bkRunning # 0
    /\ LET p == bkRunning
           popped == bkStack[p][Len(bkStack[p])]
           r == on_pop(popped, p, bkNode, bkLevels)
           top == bkStack[p][Len(bkStack[p]) - 1]
       IN  /\ bkPc[p] = "loop"
           /\ bkValue[p].kind = "exc"
           /\ Len(bkStack[p]) > 1
           /\ bkStack' = [bkStack EXCEPT ![p] = SubSeq(@, 1, Len(@) - 1)]
           /\ \E d \in BkResume(p, top, "throw", bkValue[p], r.node, r.levels, bkHold) :
                 BkApplied(p, top, "throw", bkValue[p], d, r.node)
    /\ UNCHANGED <<bkIn, bkPc, bkResults, bkRunning>>
    /\ UNCHANGED otherThanBlock

\* The last coroutine is popped with a result in `value` (parser.py
\* 154-156, 185-186): the result is yielded to the consumer.
Bk_PopYield ==
    /\ bkRunning # 0
    /\ LET p == bkRunning
           popped == bkStack[p][Len(bkStack[p])]
           r == on_pop(popped, p, bkNode, bkLevels)
       IN  /\ bkPc[p] = "loop"
           /\ bkValue[p].kind = "val"
           /\ Len(bkStack[p]) = 1
           /\ bkStack' = [bkStack EXCEPT ![p] = <<>>]
           /\ bkNode' = r.node
           /\ bkLevels' = r.levels
           /\ bkResults' = [bkResults EXCEPT ![p] = @ + 1]
           /\ bkPc' = [bkPc EXCEPT ![p] = "yielded"]
    /\ bkRunning' = 0
    /\ UNCHANGED <<bkIn, bkGen, bkValue, bkEbr, bkHold, bkLast, bkLevelOf>>
    /\ UNCHANGED otherThanBlock

\* The last coroutine is popped with an exception in `value` (parser.py
\* 154-156, 179-182, 196): it is raised to the consumer (StopIteration ends
\* the sequence of results).
Bk_PopRaise ==
    /\ bkRunning # 0
    /\ LET p == bkRunning
           popped == bkStack[p][Len(bkStack[p])]
           r == on_pop(popped, p, bkNode, bkLevels)
       IN  /\ bkPc[p] = "loop"
           /\ bkValue[p].kind = "exc"
           /\ Len(bkStack[p]) = 1
           /\ bkStack' = [bkStack EXCEPT ![p] = <<>>]
           /\ bkNode' = BkCloseAll(p, r.node, bkHold).node
           /\ bkHold' = BkCloseAll(p, r.node, bkHold).hold
           /\ bkGen' = [bkGen EXCEPT ![p] = [g \in Slots |-> "done"]]
           /\ bkLevels' = r.levels
           /\ bkPc' = [bkPc EXCEPT ![p] = "done"]
    /\ bkRunning' = 0
    /\ UNCHANGED <<bkIn, bkValue, bkEbr, bkResults, bkLast, bkLevelOf>>
    /\ UNCHANGED otherThanBlock

\* The consumer drops parse p between two results: the trampoline
\* generator is closed at its yield (the stack is empty there, parser.py
\* 186, 214-217) and the coroutines it referred to are closed.
Bk_Close ==
    /\ bkRunning = 0
    /\ \E p \in Parses :
          /\ bkPc[p] = "yielded"
          /\ bkPc' = [bkPc EXCEPT ![p] = "closed"]
          /\ bkNode' = BkCloseAll(p, bkNode, bkHold).node
          /\ bkHold' = BkCloseAll(p, bkNode, bkHold).hold
          /\ bkGen' = [bkGen EXCEPT ![p] = [g \in Slots |-> "done"]]
    /\ UNCHANGED <<bkIn, bkLevels, bkStack, bkValue, bkEbr, bkResults, bkRunning, bkLast,
                   bkLevelOf>>
    /\ UNCHANGED otherThanBlock

BlockNext ==
    \/ Bk_Request
    \/ Bk_Push
    \/ Bk_PopSend
    \/ Bk_PopThrow
    \/ Bk_PopYield
    \/ Bk_PopRaise
    \/ Bk_Close

\* ------------------------------------------------------------------------
\* Claims about Block and Indent
\* ------------------------------------------------------------------------

\* the trampoline of parse p starts generator g: it pushes it and calls
\* next() on it for the first time
Starts(p, g) ==
    /\ bkRunning = p
    /\ bkPc[p] = "loop"
    /\ bkValue[p] = BGen(g)
    /\ bkGen[p][g] = "new"
    /\ bkStack'[p] = Append(bkStack[p], g)

\* C13: a Block invoked at a key that an invocation in progress holds ends
\* at once with no result, adds nothing and pushes no indent level, neither
\* then nor when it is popped; a key is held exactly while an invocation
\* that added it has not ended (exhausted, failed or closed), and a Block
\* invoked at a key nobody holds adds the key and goes on to match its indent.
C13_NestedBlocked ==
    /\ [](bkNode.streams = {bkIn[p].key : p \in {q \in Parses : InProgress(q) # {}}})
    /\ [][ \A p \in Parses, g \in BlockSlots :
             Starts(p, g) =>
                IF bkIn[p].key \in bkNode.streams
                THEN /\ bkGen'[p][g] = "done"
                     /\ bkValue'[p] = BExc("StopIteration")
                     /\ bkLevels' = bkLevels
                     /\ bkNode'.streams = bkNode.streams
                     /\ bkLast'.note = "nested"
                ELSE /\ bkGen'[p][g] = "wait_indent"
                     /\ bkValue'[p] = BGen(IndentOf(g))
                     /\ bkNode'.streams = bkNode.streams \cup {bkIn[p].key} ]_vars
    /\ [][ (bkLast.note = "nested" /\ bkRunning # 0) =>
              /\ bkLevels' = bkLevels
              /\ bkResults' = bkResults ]_vars

\* the nested invocation of parse 1 was cut short, the outer one has ended,
\* and the later invocation at the same key is evaluating its lines
C13_Witness ==
    /\ bkPc[1] = "loop"
    /\ bkGen[1]["bn"] = "done"
    /\ bkGen[1]["bo"] = "done"
    /\ bkGen[1]["bl"] = "wait_lines"
    /\ bkHold = {<<"k1", 1, "bl">>}
    /\ bkLevels[1] = <<0, 8>>

\* the trampoline of parse p sends a token's result into Indent generator g
Receives(p, g) ==
    /\ bkRunning = p
    /\ bkPc[p] = "loop"
    /\ bkValue[p].kind = "val"
    /\ Len(bkStack[p]) > 1
    /\ bkStack[p][Len(bkStack[p]) - 1] = g
    /\ bkStack'[p] = SubSeq(bkStack[p], 1, Len(bkStack[p]) - 1)

\* C14: an Indent given the text of an INDENT token yields a match exactly
\* when the innermost level of the parse's monitor is NO_BLOCKS or is the
\* length of that text less one trailing line end; otherwise it yields no
\* result for that token.
C14_IndentMatches ==
    [][ \A p \in Parses, g \in IndentSlots :
          Receives(p, g) =>
             LET required == MonitorIndent(bkLevels, p)
                 text == bkValue[p].text
                 observed == IF text # <<>> /\ text[Len(text)] = "\n"
                             THEN Len(text) - 1 ELSE Len(text)
             IN  /\ bkLast'.current = SomeIndent(required)
                 /\ IF required = NO_BLOCKS \/ observed = required
                    THEN /\ bkValue'[p].kind = "val"
                         /\ Len(bkValue'[p].text) = observed
                    ELSE bkValue'[p] = BGen(TokenOf(g)) ]_vars

\* an indent of one blank and a line end matched at level 1
C14_Witness ==
    /\ bkLast.note = "match"
    /\ bkLast.arg.text = <<" ", "\n">>
    /\ bkLast.current = SomeIndent(1)
    /\ bkLast.out = BVal(<<" ">>)

\* C15: two parses that share the matcher graph do not affect each other: an
\* invocation of the Block in one parse is never cut short as a nested call
\* because of a key that an invocation of the other parse holds.
C15_Independent ==
    bkLast.note = "nested" => \E g \in BlockSlots : <<bkIn[bkLast.p].key, bkLast.p, g>> \in bkHold

\* ------------------------------------------------------------------------
\* make_matcher (parser.py) with Configuration.rewriters (core/config.py)
\* ------------------------------------------------------------------------

\* most calls of one parser
MaxParses == 3

\* the rewriter types a configuration may hold
RewriterTypes == {"Flatten", "ComposeTransforms", "OptimizeOr", "FullMatch"}

\* the position of a rewriter in the sort of Configuration.rewriters
RewriterOrder(t) ==
    CASE t = "SetArguments" -> 1
      [] t = "ComposeTransforms" -> 2
      [] t = "Flatten" -> 3
      [] t = "CompileRegexp" -> 4
      [] t = "OptimizeOr" -> 5
      [] t = "AddLexer" -> 6
      [] t = "DirectEvaluation" -> 7
      [] t = "FullMatch" -> 8
      [] OTHER -> 9

RECURSIVE SortByOrder(_)
\* list(S) sorted with the rewriters' own ordering
SortByOrder(S) ==
    IF S = {} THEN <<>>
    ELSE LET m == CHOOSE x \in S : \A y \in S : RewriterOrder(x) <= RewriterOrder(y)
         IN  <<m>> \o SortByOrder(S \ {m})

\* Configuration.rewriters, lines 58-63: a new sorted list of the set
Configuration_rewriters(c) == SortByOrder(c.rewriters)

\* the inputs given to parsers
ParserArgs == {"x", "y"}

\* the matcher graph before rewriting
root == <<>>

\* rewriter(matcher): the graph that rewriter r makes of matcher m
Rewrite(r, m) == Append(m, r)

RECURSIVE ApplyAll_Twice(_, _)
\* A make_matcher that gives every rewriter the matcher twice.
ApplyAll_Twice(l, st) ==
    IF l = <<>> THEN st
    ELSE ApplyAll_Twice(Tail(l),
           [matcher |-> Rewrite(Head(l), Rewrite(Head(l), st.matcher)),
            log |-> st.log \o << <<Head(l), st.matcher>>,
                                  <<Head(l), Rewrite(Head(l), st.matcher)>> >>])

RECURSIVE ApplyAll(_, _)
\* the loop of lines 226-227 over list l, from matcher and call log st
ApplyAll(l, st) ==
    IF l = <<>> THEN st
    ELSE ApplyAll(Tail(l),
           [matcher |-> Rewrite(Head(l), st.matcher),
            log |-> Append(st.log, <<Head(l), st.matcher>>)])

MatcherInit ==
    /\ mmConfig \in [rewriters : SUBSET RewriterTypes, monitor : {"monitor"}]
    /\ mmMade = FALSE
    /\ mmMatcher = root
    /\ mmLog = <<>>
    /\ mmParses = <<>>

MatcherIdle ==
    /\ mmConfig = [rewriters |-> {}, monitor |-> "monitor"]
    /\ mmMade = FALSE
    /\ mmMatcher = root
    /\ mmLog = <<>>
    /\ mmParses = <<>>

\* make_matcher(matcher, stream, config), lines 220-234
make_matcher ==
    /\ ~mmMade
    /\ LET st == ApplyAll(Configuration_rewriters(mmConfig),
                          [matcher |-> root, log |-> mmLog])
       IN  /\ mmMatcher' = st.matcher
           /\ mmLog' = st.log
    /\ mmMade' = TRUE
    /\ UNCHANGED <<mmConfig, mmParses>>
    /\ UNCHANGED otherThanMatcher

\* A parser that rewrites the matcher again at every call.
parser_Rewriting ==
    /\ mmMade
    /\ Len(mmParses) < MaxParses
    /\ \E arg \in ParserArgs :
          LET st == ApplyAll(Configuration_rewriters(mmConfig),
                             [matcher |-> root, log |-> mmLog])
          IN  /\ mmParses' = Append(mmParses,
                     [arg |-> arg, stream |-> Len(mmParses) + 1,
                      matcher |-> st.matcher, monitor |-> mmConfig.monitor,
                      trampoline |-> Len(mmParses) + 1])
              /\ mmLog' = st.log
    /\ UNCHANGED <<mmConfig, mmMade, mmMatcher>>
    /\ UNCHANGED otherThanMatcher

\* parser(arg), lines 231-232: a new stream from arg, the rewritten
\* matcher's _match on it, and a new trampoline over that generator
parser ==
    /\ mmMade
    /\ Len(mmParses) < MaxParses
    /\ \E arg \in ParserArgs :
          mmParses' = Append(mmParses,
              [arg |-> arg, stream |-> Len(mmParses) + 1,
               matcher |-> mmMatcher, monitor |-> mmConfig.monitor,
               trampoline |-> Len(mmParses) + 1])
    /\ UNCHANGED <<mmConfig, mmMade, mmMatcher, mmLog>>
    /\ UNCHANGED otherThanMatcher

MatcherNext ==
    \/ make_matcher
    \/ parser

MaxBefore == 2

\* ConfigBuilder(), lines 68-78
NewBuilder ==
    [started |-> FALSE,
     changed |-> TRUE,
     rewriters |-> 1,
     monitors |-> 1,
     stream_factory |-> DEFAULT_STREAM_FACTORY,
     alphabet |-> NoAlphabet,
     sets |-> [i \in SetIds |-> {}],
     lists |-> [i \in ListIds |-> <<>>],
     cfg |-> NoCfg,
     err |-> "none"]

\* a call of a setter: its name and the alphabet argument, where it has one
SetterCall(n, a) == [name |-> n, alphabet |-> a]

\* the calls explored: every setter with its default arguments, and
\* compile_to_nfa also with an alphabet
SetterNames == {"flatten", "compose_transforms", "optimize_or",
                "auto_memoize", "compile_to_nfa", "compile_to_dfa", "lexer",
                "set_arguments", "full_match", "trace", "manage", "clear",
                "default", "line_aware"}
SetterCalls == {SetterCall(n, NoAlphabet) : n \in SetterNames} \cup
               {SetterCall("compile_to_nfa", "AlphabetA")}

\* builder.f(...), for a call f, on builder w
Apply(w0, f) ==
    LET w == [w0 EXCEPT !.err = "none"]
    IN CASE f.name = "flatten" -> flatten(w)
         [] f.name = "compose_transforms" -> compose_transforms(w)
         [] f.name = "optimize_or" -> optimize_or(w, "False")
         [] f.name = "auto_memoize" -> auto_memoize(w, "False", "False")
         [] f.name = "compile_to_nfa" -> compile_to_nfa(w, "False", f.alphabet)
         [] f.name = "compile_to_dfa" -> compile_to_dfa(w, "False", f.alphabet)
         [] f.name = "lexer" -> lexer(w, f.alphabet, "None", "None")
         [] f.name = "set_arguments" -> set_arguments(w, "Block", "policy", "4")
         [] f.name = "full_match" -> full_match(w, "True")
         [] f.name = "trace" -> trace(w, "False")
         [] f.name = "manage" -> manage(w, "0")
         [] f.name = "clear" -> clear(w)
         [] f.name = "default" -> default(w)
         [] OTHER -> line_aware(w, f.alphabet, "None", "None", "None",
                                "None", "None")

\* What a parser is built from, read through builder.configuration: the
\* rewriters in the order of Configuration.rewriters (lines 58-63;
\* rewriters of one rank are in no defined order), the monitors in their
\* order, and the stream factory.
Ranks == 1..9
Built(w) ==
    LET c == configuration(w)
    IN [rewriters |-> [k \in Ranks |->
                         {<<r.type, r.param>> :
                            r \in {x \in Rewriters(c) :
                                     RewriterOrder(x.type) = k}}],
        monitors |-> MonitorList(c),
        stream_factory |-> c.stream_factory]

\* two new builders
CommuteInit ==
    /\ cmA = NewBuilder
    /\ cmB = NewBuilder
    /\ cmF = SetterCall("flatten", NoAlphabet)
    /\ cmG = SetterCall("flatten", NoAlphabet)
    /\ cmStep = 0
    /\ cmBefore = 0

CommuteIdle ==
    /\ cmA = NewBuilder
    /\ cmB = NewBuilder
    /\ cmF = SetterCall("flatten", NoAlphabet)
    /\ cmG = SetterCall("flatten", NoAlphabet)
    /\ cmStep = 4
    /\ cmBefore = 0

\* One call on a builder.  Before the two calls that are compared, any call
\* may be made on both builders (the state the two start from).  Then the
\* first builder is given f and g, and the second g and f.
Commute_call ==
    /\ cmStep < 4
    /\ \E kind \in {"before", "pair"}, f \in SetterCalls, g \in SetterCalls :
          /\ kind = "before" => (cmStep = 0 /\ cmBefore < MaxBefore /\ g = f)
          /\ (kind = "pair" /\ cmStep > 0) => (f = cmF /\ g = cmG)
          /\ \E made \in {Apply(IF cmStep < 2 THEN cmA ELSE cmB,
                                 IF cmStep \in {0, 3} THEN f ELSE g)} :
                /\ cmA' = IF cmStep < 2 THEN made ELSE cmA
                /\ cmB' = IF cmStep >= 2 \/ kind = "before" THEN made ELSE cmB
          /\ cmF' = IF kind = "pair" THEN f ELSE cmF
          /\ cmG' = IF kind = "pair" THEN g ELSE cmG
          /\ cmStep' = IF kind = "pair" THEN cmStep + 1 ELSE cmStep
          /\ cmBefore' = IF kind = "before" THEN cmBefore + 1 ELSE cmBefore
    /\ UNCHANGED otherThanCommute

CommuteNext == Commute_call

\* C17 as stated: any two of the setters, called in either order on the same
\* builder state, give the same rewriters in the same application order, the
\* same monitors in the same order and the same stream factory.
C17_Commutative ==
    cmStep = 4 => Built(cmA) = Built(cmB)

\* the setters that only add one rewriter or one monitor to what the builder
\* holds
Adders == {"flatten", "compose_transforms", "optimize_or", "auto_memoize",
           "compile_to_nfa", "compile_to_dfa", "lexer", "set_arguments",
           "full_match", "trace", "manage"}

\* two calls that add different things: different setters, not the two that
\* add a CompileRegexp, not the two that add a monitor, and no alphabet
\* argument
AddDifferent(f, g) ==
    /\ f.name \in Adders /\ g.name \in Adders
    /\ f.name # g.name
    /\ {f.name, g.name} # {"compile_to_nfa", "compile_to_dfa"}
    /\ {f.name, g.name} # {"trace", "manage"}
    /\ f.alphabet = NoAlphabet /\ g.alphabet = NoAlphabet

\* C17, amended: two different setters among flatten, compose_transforms,
\* optimize_or, auto_memoize, compile_to_nfa, compile_to_dfa, lexer,
\* set_arguments, full_match, trace and manage, called without an alphabet
\* argument and other than the pairs compile_to_nfa with compile_to_dfa and
\* trace with manage, give the same rewriters in the same application order,
\* the same monitors in the same order and the same stream factory in
\* either order.
C17_AddersCommute ==
    (cmStep = 4 /\ AddDifferent(cmF, cmG)) => Built(cmA) = Built(cmB)

\* lexer and compile_to_dfa on a new builder, in the two orders: both
\* builders hold the lexer and the DFA compiler over the default alphabet
C17_Witness ==
    /\ cmStep = 4
    /\ cmBefore = 0
    /\ cmF.name = "lexer" /\ cmG.name = "compile_to_dfa"
    /\ Built(cmA) = Built(cmB)
    /\ Built(cmA).rewriters[4] =
           {<<"CompileRegexp", <<UnicodeAlphabet, "False", "DfaRegexp">> >>}
    /\ Built(cmA).rewriters[6] =
           {<<"AddLexer", <<UnicodeAlphabet, "None", "None">> >>}
    /\ Built(cmA).rewriters[3] # {}

\* ------------------------------------------------------------------------
\* Properties of ConfigBuilder.alphabet
\* ------------------------------------------------------------------------

\* C18: builder.alphabet = a, with a given and different from the alphabet
\* the builder holds (stored by an assignment or by a read), raises
\* ConfigurationError and leaves the alphabet, the rewriters, the monitors
\* and the changed flag as they were; with a None or the alphabet held it
\* does nothing; right after clear() any alphabet given is stored.
C18_AlphabetSetter ==
    [][(cbCalls' # cbCalls /\ cbLast'.op = "alphabet=") =>
          LET a == cbLast'.arg
          IN  /\ (a # NoAlphabet /\ cb.alphabet # NoAlphabet /\ a # cb.alphabet)
                    => /\ cb'.err = "ConfigurationError"
                       /\ cb'.alphabet = cb.alphabet
                       /\ Rewriters(cb') = Rewriters(cb)
                       /\ MonitorList(cb') = MonitorList(cb)
                       /\ cb'.changed = cb.changed
              /\ (a = NoAlphabet \/ a = cb.alphabet) => cb' = Calling
              /\ (cbLast.op = "clear" /\ a # NoAlphabet)
                    => /\ cb'.err = "none"
                       /\ cb'.alphabet = a
      ]_vars

\* the default alphabet was stored by a read, the configuration was read,
\* and then another alphabet was refused
C18_Witness ==
    /\ cbLast = [op |-> "alphabet=", arg |-> "AlphabetA"]
    /\ cb.err = "ConfigurationError"
    /\ cb.alphabet = UnicodeAlphabet
    /\ ~cb.changed
    /\ Rewriters(cb) # {}

\* ------------------------------------------------------------------------
\* Clone over ConstructorWalker (graph.py)
\* ------------------------------------------------------------------------

\* number of nodes of the graph that is cloned
MaxNodes == 3
\* how many times the result is cloned again
MaxClones == 2

\* the arguments that are not nodes
Leaves == {"a", "b"}

\* A constructor argument: a node of the heap, a Proxy, or a leaf value.
ArgNode(i) == [kind |-> "node", x |-> i]
ArgProxy(i) == [kind |-> "proxy", x |-> i]
ArgLeaf(v) == [kind |-> v, x |-> 0]

\* the class of the i-th node of the input graph
NodeType(i) ==
    CASE i = 1 -> "And"
      [] i = 2 -> "Or"
      [] OTHER -> "Repeat"

\* the constructor arguments a node of an n-node graph may have: none, one
\* or two, each a node or a leaf
ArgValues(n) == {ArgNode(i) : i \in 1..n} \cup {ArgLeaf(v) : v \in Leaves}
ArgLists(n) == {<<>>} \cup {<<x>> : x \in ArgValues(n)} \cup
               {<<x, y>> : x \in ArgValues(n), y \in ArgValues(n)}

\* the graph of n nodes with the argument lists a: node 1 is the root, and
\* the edges may form cycles
Graph(n, a) == [i \in 1..n |-> [type |-> NodeType(i), args |-> a[i]]]

\* iter(node), lines 296-302, less what dfs_edges flags LEAF: the children
\* that are nodes (a Proxy is not an instance of the node type)
RECURSIVE dfs_edges(_, _, _, _)
\* dfs_edges(node, type_), lines 67-104, as seen through postorder (lines
\* 143-147): the children named by the BACKWARD and NONTREE edges that are
\* not LEAF, in order.  `todo` is what is left of the children of node n,
\* d the nodes yielded and the nodes visited so far.
dfs_edges(h, n, todo, d) ==
    IF todo = <<>>
    THEN [d EXCEPT !.order = Append(@, n)]
    ELSE LET c == Head(todo)
         IN IF c.kind # "node"
            THEN dfs_edges(h, n, Tail(todo), d)
            ELSE IF c.x \in d.visited
            THEN dfs_edges(h, n, Tail(todo),
                           [d EXCEPT !.order = Append(@, c.x)])
            ELSE dfs_edges(h, n, Tail(todo),
                           dfs_edges(h, c.x, h[c.x].args,
                                     [d EXCEPT !.visited = @ \cup {c.x}]))

\* postorder(root, type_, exclude=LEAF), lines 143-147
postorder(h, r) ==
    dfs_edges(h, r, h[r].args, [order |-> <<>>, visited |-> {r}]).order

\* make_proxy(), lines 689-700: a Proxy over a delegate that is None
make_proxy(st) ==
    [st EXCEPT !.delegate = Append(@, 0)]

\* A loop that makes a new proxy at every call, the older one forgotten.
loop_Fresh(st, node) ==
    [make_proxy(st) EXCEPT !.proxies[node] = Len(st.delegate) + 1]

\* Clone.loop(node), lines 726-732
loop(st, node) ==
    IF st.proxies[node] = 0
    THEN [make_proxy(st) EXCEPT !.proxies[node] = Len(st.delegate) + 1]
    ELSE st

\* ConstructorWalker.__value, lines 393-403, with Clone.leaf (lines 749-753):
\* the walk after the call, with the value appended to new_args
ConstructorWalker_value(st, arg) ==
    IF arg.kind = "node"
    THEN IF st.results[arg.x] # 0
         THEN [st EXCEPT !.new_args = Append(@, ArgNode(st.results[arg.x]))]
         ELSE LET s1 == loop(st, arg.x)
              IN [s1 EXCEPT !.new_args = Append(@, ArgProxy(s1.proxies[arg.x]))]
    ELSE [st EXCEPT !.new_args = Append(@, arg)]

RECURSIVE ConstructorWalker_arguments(_, _)
\* ConstructorWalker.__arguments, lines 378-391, over what is left of
\* old_args
ConstructorWalker_arguments(st, old_args) ==
    IF old_args = <<>> THEN st
    ELSE ConstructorWalker_arguments(ConstructorWalker_value(st, Head(old_args)),
                                     Tail(old_args))

\* A constructor that does not supply the clone to the node's proxy.
constructor_NoPatch(st, node) ==
    [st EXCEPT !.heap = Append(@, [type |-> st.heap[node].type,
                                   args |-> st.new_args]),
               !.results = Append(@, 0),
               !.proxies = Append(@, 0)]

\* Clone.constructor(*args), lines 740-747, with clone (lines 703-712), for
\* the node stored by Clone.node: the new node is put on the heap, and
\* given to the proxy of the node it was made from
constructor(st, node) ==
    LET new == Len(st.heap) + 1
    IN [st EXCEPT !.heap = Append(@, [type |-> st.heap[node].type,
                                      args |-> st.new_args]),
                  !.results = Append(@, 0),
                  !.proxies = Append(@, 0),
                  !.delegate = IF st.proxies[node] # 0
                               THEN [@ EXCEPT ![st.proxies[node]] = new]
                               ELSE @]

\* one turn of the loop of ConstructorWalker.__call__, lines 370-374
ConstructorWalker_step(st, node) ==
    LET s1 == ConstructorWalker_arguments([st EXCEPT !.new_args = <<>>],
                                          st.heap[node].args)
        s2 == constructor(s1, node)
    IN [s2 EXCEPT !.results[node] = Len(s2.heap)]

\* the arguments of node that __value (lines 398-402) hands to visitor.loop:
\* the nodes that are not in results
Looped(h, done, node) ==
    {<<node, h[node].args[j].x>> :
        j \in {k \in 1..Len(h[node].args) :
                 /\ h[node].args[k].kind = "node"
                 /\ done[h[node].args[k].x] = 0}}

CloneInit ==
    /\ \E n \in 1..MaxNodes :
          \E a \in [1..n -> ArgLists(n)] : clHeap = Graph(n, a)
    /\ clDelegate = <<>>
    /\ clRoots = <<1>>
    /\ clWalking = FALSE
    /\ clOrder = <<>>
    /\ clResults = <<>>
    /\ clProxies = <<>>
    /\ clVisited = <<>>
    /\ clLoops = {}

CloneIdle ==
    /\ clHeap = <<[type |-> NodeType(1), args |-> <<>>]>>
    /\ clDelegate = <<>>
    /\ clRoots = <<1>>
    /\ clWalking = FALSE
    /\ clOrder = <<>>
    /\ clResults = <<>>
    /\ clProxies = <<>>
    /\ clVisited = <<>>
    /\ clLoops = {}

\* ConstructorWalker(root, type_)(Clone()), up to the loop: a new results
\* dict, a new Clone with no proxies, and the traversal of the last graph
\* made
Clone_call ==
    /\ ~clWalking
    /\ Len(clRoots) <= MaxClones
    /\ clWalking' = TRUE
    /\ clOrder' = postorder(clHeap, clRoots[Len(clRoots)])
    /\ clResults' = [i \in 1..Len(clHeap) |-> 0]
    /\ clProxies' = [i \in 1..Len(clHeap) |-> 0]
    /\ clVisited' = <<>>
    /\ clLoops' = {}
    /\ UNCHANGED <<clHeap, clDelegate, clRoots>>
    /\ UNCHANGED otherThanClone

\* one node of the traversal: Clone.node, the arguments, Clone.constructor
Clone_node ==
    /\ clWalking
    /\ clOrder # <<>>
    /\ LET st == ConstructorWalker_step(
                     [heap |-> clHeap, delegate |-> clDelegate,
                      results |-> clResults, proxies |-> clProxies,
                      new_args |-> <<>>],
                     Head(clOrder))
       IN /\ clHeap' = st.heap
          /\ clDelegate' = st.delegate
          /\ clResults' = st.results
          /\ clProxies' = st.proxies
    /\ clOrder' = Tail(clOrder)
    /\ clVisited' = Append(clVisited, Head(clOrder))
    /\ clLoops' = clLoops \cup Looped(clHeap, clResults, Head(clOrder))
    /\ UNCHANGED <<clRoots, clWalking>>
    /\ UNCHANGED otherThanClone

\* return results[self.__root], line 375
Clone_return ==
    /\ clWalking
    /\ clOrder = <<>>
    /\ clRoots' = Append(clRoots, clResults[clRoots[Len(clRoots)]])
    /\ clWalking' = FALSE
    /\ UNCHANGED <<clHeap, clDelegate, clOrder, clResults, clProxies, clVisited,
                   clLoops>>
    /\ UNCHANGED otherThanClone

CloneNext ==
    \/ Clone_call
    \/ Clone_node
    \/ Clone_return

\* ---- structural equality

\* what an argument is once proxies are followed (Proxy.__getattr__, lines
\* 685-686): a proxy stands for its delegate
Follow(arg) ==
    IF arg.kind = "proxy"
    THEN (IF clDelegate[arg.x] = 0 THEN [kind |-> "None", x |-> 0]
          ELSE ArgNode(clDelegate[arg.x]))
    ELSE arg

\* the pairs of nodes met at the ends of equal paths from the pair p
PairsBelow(p) ==
    IF Len(clHeap[p[1]].args) # Len(clHeap[p[2]].args) THEN {}
    ELSE {<<Follow(clHeap[p[1]].args[i]).x, Follow(clHeap[p[2]].args[i]).x>> :
            i \in {j \in 1..Len(clHeap[p[1]].args) :
                     /\ Follow(clHeap[p[1]].args[j]).kind = "node"
                     /\ Follow(clHeap[p[2]].args[j]).kind = "node"}}

RECURSIVE PairsFrom(_)
PairsFrom(P) ==
    LET Q == P \cup UNION {PairsBelow(p) : p \in P}
    IN IF Q = P THEN P ELSE PairsFrom(Q)

\* two nodes agree: same type, and in every position both have a node or
\* both have the same leaf
Agree(p) ==
    /\ clHeap[p[1]].type = clHeap[p[2]].type
    /\ Len(clHeap[p[1]].args) = Len(clHeap[p[2]].args)
    /\ \A i \in 1..Len(clHeap[p[1]].args) :
          LET a == Follow(clHeap[p[1]].args[i])
              b == Follow(clHeap[p[2]].args[i])
          IN /\ a.kind = b.kind
             /\ a.kind # "None"
             /\ a.kind # "node" => a = b

\* the graphs at r1 and r2 show the same thing along every path
SameStructure(r1, r2) == \A p \in PairsFrom({<<r1, r2>>}) : Agree(p)

\* C19: a graph returned by Clone over ConstructorWalker has the structure
\* of the graph it was made from, cycles or not: with proxies followed,
\* every path from the root meets the same node types and the same leaves
\* in the same argument positions; so the clone of a clone has the
\* structure of the clone.
C19_CloneSameStructure ==
    \A k \in 2..Len(clRoots) :
        /\ SameStructure(clRoots[k - 1], clRoots[k])
        /\ SameStructure(clRoots[1], clRoots[k])

\* a graph with a cycle through the root and a leaf, cloned twice; the first
\* clone holds a proxy that was given its node
C19_Witness ==
    /\ Len(clRoots) = 3
    /\ clHeap[1].args = <<ArgNode(2), ArgLeaf("a")>>
    /\ clHeap[2].args = <<ArgLeaf("b"), ArgNode(1)>>
    /\ \E i \in 1..Len(clDelegate) : clDelegate[i] # 0
    /\ clRoots[2] # clRoots[3]

\* ------------------------------------------------------------------------
\* Properties of Character equality
\* ------------------------------------------------------------------------

\* C20: at any time, appends included, a Character is equal to (and hashes
\* as) another Character over the same alphabet exactly when the two hold
\* the same normalized intervals; the other Character is any newly
\* constructed one.
C20_EqualByIntervals ==
    \A seq \in IntervalLists(MaxCtor) :
        Character_eq(chStr, fmt_intervals(Character_init(seq)))
            <=> chIntervals = Character_init(seq)

\* ------------------------------------------------------------------------
\* Membership in a Character
\* ------------------------------------------------------------------------

\* the codes asked about: every code of the alphabet and one on each side
Asked == (0 - 1)..(MaxCode + 1)

\* C21: after construction and any appends, c in character is true exactly
\* when c lies inside one of the stored intervals, and an empty Character
\* contains no code.
C21_ContainsStored ==
    \A c \in Asked :
        Character_contains(chIndex, chIntervals, c)
            <=> \E k \in 1..Len(chIntervals) :
                    chIntervals[k][1] <= c /\ c <= chIntervals[k][2]

\* an append has succeeded, two intervals are stored, and a code of the
\* second one is found while the code between the two is not
C21_Witness ==
    /\ chCount > 0 /\ chError = "none"
    /\ chIntervals = << <<0, 0>>, <<2, 3>> >>
    /\ Character_contains(chIndex, chIntervals, 3)
    /\ ~Character_contains(chIndex, chIntervals, 1)

\* ------------------------------------------------------------------------
\* The default configuration and explicit rewriters
\* ------------------------------------------------------------------------

\* the types of a set of rewriters
Types(S) == {r.type : r \in S}

\* C22: on a fresh builder the default configuration is used when no
\* rewriter is added, and once a rewriter is explicitly added or removed
\* the configuration holds only the rewriters explicitly added.
C22_DefaultDiscarded ==
    [][cbCalls = 0 =>
          /\ cbLast'.op = "configuration" =>
                Types(Rewriters(cb')) = Types(Rewriters(default(Calling)))
          /\ cbLast'.op = "add_rewriter" =>
                Rewriters(cb') = {cbLast'.arg}
          /\ cbLast'.op \in {"remove_rewriter", "remove_rewriters"} =>
                Rewriters(cb') = {}]_vars

\* the rewriter added by each setter whose documentation says "This is part
\* of the default configuration" (config.py 261-423)
DocumentedDefault ==
    {"Flatten", "ComposeTransforms", "AddLexer", "AutoMemoize",
     "DirectEvaluation", "CompileRegexp", "FullMatch", "OptimizeOr"}

\* C23: after default(), and on first use of a fresh builder, the
\* configuration holds a rewriter for every setter documented as part of
\* the default configuration.
C23_DefaultComplete ==
    [][(cbLast'.op = "default"
           \/ (cbCalls = 0 /\ cbLast'.op = "configuration"))
          => DocumentedDefault \subseteq Types(Rewriters(cb'))]_vars

\* ------------------------------------------------------------------------
\* Blocks enabled by line_aware
\* ------------------------------------------------------------------------

\* The policies the configuration may leave on the Block matchers: each
\* SetArguments(Block, policy=...) of the configuration sets its policy on
\* every Block, and the order in which rewriters of one rank are applied is
\* not defined (Configuration.rewriters sorts list(set), lines 58-63), so
\* any of them may be the last.
PoliciesSet(w) ==
    {r.param[3] : r \in {x \in Rewriters(w) :
                           /\ x.type = "SetArguments"
                           /\ x.param[1] = "Block"
                           /\ x.param[2] = "policy"}}

\* C24: after line_aware with block_start given and block_policy omitted,
\* blocks are enabled and the policy set on the Block matchers is
\* DEFAULT_POLICY; with block_policy given and block_start omitted, the
\* block monitor starts at indent 0.
C24_BlockDefaults ==
    [][cbLast'.op = "line_aware" =>
          /\ (cbLast'.arg.block_policy = "None"
                 /\ cbLast'.arg.block_start # "None") =>
                /\ MonitorList(cb') = <<block_monitor(cbLast'.arg.block_start)>>
                /\ PoliciesSet(cb') = {"DEFAULT_POLICY"}
          /\ (cbLast'.arg.block_policy # "None"
                 /\ cbLast'.arg.block_start = "None") =>
                MonitorList(cb') = <<block_monitor("0")>>]_vars

\* ------------------------------------------------------------------------
\* Token._match (lexer/matchers.py)
\* ------------------------------------------------------------------------

\* most items of the token stream
MaxItems == 2
\* most results of a content matcher
MaxContent == 2

TokenIds == {"Tk0", "Tk1"}
TokenTexts == {"x", "y"}

\* an item of the token stream: the ids of the tokens that matched, and
\* the line stream over the matched text
TokenItems == [tokens : SUBSET TokenIds, text : TokenTexts]
\* the token streams explored: those with a next item
TokenStreams == UNION {[1..k -> TokenItems] : k \in 1..MaxItems}

\* what a content matcher yields for a line stream: each result with the
\* line stream left after it, of which only whether it is empty matters
ContentResults == [result : {"r", "s"}, rest : {"", "left"}]
NoContent == [present |-> FALSE, results |-> <<>>]
Contents_ == {NoContent} \cup
             {[present |-> TRUE, results |-> l] :
                 l \in UNION {[1..k -> ContentResults] : k \in 0..MaxContent}}

\* s_empty(stream) of a line stream
s_empty(line_stream) == line_stream = ""

\* the test of line 190 on a content result
Token_accepts_Any(next_line_stream, complete) == TRUE

Token_accepts(next_line_stream, complete) ==
    s_empty(next_line_stream) \/ ~complete

TokenInit ==
    /\ tkToken \in [id_ : TokenIds, content : Contents_,
                    complete : BOOLEAN, compiled : BOOLEAN]
    /\ tkStream \in TokenStreams
    /\ tkPc = "new"
    /\ tkPulled = 0
    /\ tkOut = <<>>
    /\ tkErr = "none"

TokenIdle ==
    /\ tkToken = [id_ |-> "Tk0", content |-> NoContent,
                  complete |-> TRUE, compiled |-> FALSE]
    /\ tkStream = <<>>
    /\ tkPc = "idle"
    /\ tkPulled = 0
    /\ tkOut = <<>>
    /\ tkErr = "none"

\* The first next() of the generator, lines 175-188: LexerError when the
\* Token is not compiled; an item of another kind ends the generator;
\* without content the line is yielded with next_stream, and with content
\* the content's generator is yielded.
Token_match_start ==
    /\ tkPc = "new"
    /\ IF ~tkToken.compiled
       THEN tkPc' = "done" /\ tkErr' = "LexerError" /\ UNCHANGED tkOut
       ELSE IF tkToken.id_ \notin Head(tkStream).tokens
       THEN tkPc' = "done" /\ UNCHANGED <<tkErr, tkOut>>
       ELSE IF ~tkToken.content.present
       THEN /\ tkOut' = Append(tkOut, [result |-> <<Head(tkStream).text>>,
                                       stream |-> Tail(tkStream)])
            /\ tkPc' = "yielded"
            /\ UNCHANGED tkErr
       ELSE tkPc' = "content" /\ UNCHANGED <<tkErr, tkOut>>
    /\ UNCHANGED <<tkToken, tkStream, tkPulled>>
    /\ UNCHANGED otherThanToken

\* The trampoline sends the next result of the content, lines 189-191: it
\* is yielded with next_stream when accepted, and otherwise the content's
\* generator is yielded again.
Token_match_send ==
    /\ tkPc = "content"
    /\ tkPulled < Len(tkToken.content.results)
    /\ tkPulled' = tkPulled + 1
    /\ LET got == tkToken.content.results[tkPulled + 1]
       IN IF Token_accepts(got.rest, tkToken.complete)
          THEN /\ tkOut' = Append(tkOut, [result |-> <<got.result>>,
                                          stream |-> Tail(tkStream)])
               /\ tkPc' = "yielded"
          ELSE UNCHANGED <<tkOut, tkPc>>
    /\ UNCHANGED <<tkToken, tkStream, tkErr>>
    /\ UNCHANGED otherThanToken

\* The content has no more results: the trampoline throws StopIteration
\* into the generator at line 189, which ends it.
Token_match_throw ==
    /\ tkPc = "content"
    /\ tkPulled = Len(tkToken.content.results)
    /\ tkPc' = "done"
    /\ UNCHANGED <<tkToken, tkStream, tkPulled, tkOut, tkErr>>
    /\ UNCHANGED otherThanToken

\* next() after a result: without content the generator ends (line 186 is
\* its last statement); with content the loop of line 188 yields the
\* content's generator again.
Token_match_next ==
    /\ tkPc = "yielded"
    /\ tkPc' = IF tkToken.content.present THEN "content" ELSE "done"
    /\ UNCHANGED <<tkToken, tkStream, tkPulled, tkOut, tkErr>>
    /\ UNCHANGED otherThanToken

TokenNext ==
    \/ Token_match_start
    \/ Token_match_send
    \/ Token_match_throw
    \/ Token_match_next

RECURSIVE Chosen(_, _)
\* the results of a content, each as a list, less those that leave text
\* when complete is set
Chosen(l, complete) ==
    IF l = <<>> THEN <<>>
    ELSE (IF Head(l).rest = "" \/ ~complete THEN << <<Head(l).result>> >>
          ELSE <<>>) \o Chosen(Tail(l), complete)

\* C25: a compiled Token matches only if its id_ is among the token ids of
\* the next item of the stream; without content it yields exactly the
\* token text, with content and complete set exactly the content results
\* that leave no text, and with complete unset every content result; each
\* result comes with the token stream advanced by one item.
C25_TokenResults ==
    tkToken.compiled =>
      LET matches == tkToken.id_ \in Head(tkStream).tokens
          expected == IF ~matches THEN <<>>
                      ELSE IF ~tkToken.content.present
                      THEN << <<Head(tkStream).text>> >>
                      ELSE Chosen(tkToken.content.results, tkToken.complete)
      IN /\ tkErr = "none"
         /\ Len(tkOut) <= Len(expected)
         /\ \A i \in 1..Len(tkOut) :
               /\ tkOut[i].result = expected[i]
               /\ tkOut[i].stream = Tail(tkStream)
         /\ tkPc = "done" => Len(tkOut) = Len(expected)

\* a complete Token whose content gave a result that left text and then one
\* that left none has finished with the second result only
C25_Witness ==
    /\ tkPc = "done" /\ tkToken.compiled /\ tkToken.complete
    /\ tkToken.content.results = <<[result |-> "r", rest |-> "left"],
                                   [result |-> "s", rest |-> ""]>>
    /\ Len(tkStream) = 2
    /\ tkOut = <<[result |-> <<"s">>, stream |-> Tail(tkStream)]>>

\* ------------------------------------------------------------------------
\* The trampoline and its monitor
\* ------------------------------------------------------------------------

\* a hook of the monitor set its flag in an earlier iteration
Flagged == monFlag # 0 /\ monFlag <= epoch

Pair(v) == IF v = "r1" THEN <<"result1", "stream1">>
           ELSE <<"result2", "stream2">>

Returned(x) == [kind |-> "return", x |-> x]
Raised(x) == [kind |-> "raise", x |-> x]
Running == [kind |-> "none", x |-> "none"]

\* next(matcher(arg))[0], line 248, for the pair next() gave
single_value_Stream(pair) == pair[2]

single_value(pair) == pair[1]

\* single(arg) was called: matcher(arg) made a new trampoline, not started
SingleInit == spRet = Running

SingleIdle == spRet = Returned("idle")

\* single(arg), lines 244-251, once next(matcher(arg)) has come back: the
\* first part of the pair it gave is returned; StopIteration gives None;
\* any other exception leaves the call.
single ==
    /\ spRet = Running
    /\ pc \in {"yielded", "done"}
    /\ spRet' = IF pc = "yielded"
                THEN Returned(single_value(Pair(results[Len(results)])))
                ELSE IF raised = StopIteration THEN Returned("None")
                ELSE Raised(raised)
    /\ UNCHANGED trampVars
    /\ UNCHANGED otherThanSingle

\* next() on the trampoline, and then the return of single
SingleNext ==
    \/ Start
    \/ Iter_Push
    \/ Iter_PopSend
    \/ Iter_PopThrow
    \/ Iter_PopYield
    \/ Iter_PopRaise
    \/ single

\* C27: the parser returns the result part of the first pair the matcher
\* produces and takes no second pair from it; it returns None when the
\* matcher is exhausted without a result; any other error leaves the call.
C27_FirstResult ==
    /\ Len(rootVals) <= 1
    /\ spRet # Running =>
          IF rootVals # <<>>
          THEN spRet = Returned(Pair(rootVals[1])[1])
          ELSE IF raised = StopIteration THEN spRet = Returned("None")
          ELSE raised \in Errors /\ spRet = Raised(raised)

\* the parser returned the first result, which main produced after one
\* coroutine it called had failed and another had given a value
C27_Witness ==
    /\ spRet = Returned("result2")
    /\ rootVals = <<"r2">>
    /\ gen["g2"] = "finished" /\ gen["g3"] = "suspended"

\* ------------------------------------------------------------------------
\* The levels a Block pushes and pops
\* ------------------------------------------------------------------------

\* C28: push_level is called only when the Indent of a Block has matched
\* and before its lines are evaluated, with policy(current, indent), and
\* pop_level is called for an activation of a Block exactly when push_level
\* was; so once every activation of a parse has ended the monitor's level
\* stack has the depth it started with.
C28_LevelsBalanced ==
    /\ [][ \A p \in Parses :
             Len(bkLevels'[p]) > Len(bkLevels[p]) =>
                /\ bkLast'.note = "push_level" /\ bkLast'.op = "send"
                /\ bkLast'.g \in BlockSlots
                /\ bkGen[p][bkLast'.g] = "wait_indent"
                /\ bkGen'[p][bkLast'.g] = "wait_lines"
                /\ bkLevels'[p] = Append(bkLevels[p],
                                         policy(MonitorIndent(bkLevels, p),
                                                bkLast'.arg.text)) ]_vars
    /\ [](\A p \in Parses : bkStack[p] = <<>> => Len(bkLevels[p]) = 1)

\* ------------------------------------------------------------------------
\* ParserMixin (core/config.py)
\* ------------------------------------------------------------------------

\* the input kinds and keyword arguments of the calls explored
Froms == {"string", "null"}
Kargs == {"{}", "{k: 1}"}

NoMatcher == [present |-> FALSE, rewriters |-> {}, monitors |-> <<>>,
              stream_factory |-> "none", from_ |-> "none", kargs |-> "none"]

\* make_matcher(self, stream_factory, config, kargs), line 693, with
\* stream_factory = getattr(config.stream_factory, 'from_' + from_): what
\* the matcher is made from
make_matcher4(w, from_, kargs) ==
    [present |-> TRUE, rewriters |-> Rewriters(w), monitors |-> MonitorList(w),
     stream_factory |-> w.stream_factory, from_ |-> from_, kargs |-> kargs]

\* ParserMixin.__init__, lines 680-684
MixinInit ==
    /\ pmCache = NoMatcher
    /\ pmFrom = "None"
    /\ pmLast = [from_ |-> "none", kargs |-> "none", served |-> FALSE]
    /\ pmCalls = 0

\* ParserMixin.__matcher(from_, kargs), lines 686-694, reached from every
\* *_matcher, *_parser, match* and parse* method
ParserMixin_matcher ==
    /\ cbCalls < MaxCalls /\ cbCalls' = cbCalls + 1
    /\ pmCalls' = pmCalls + 1
    /\ \E from_ \in Froms, kargs \in Kargs :
          IF cb.changed \/ ~pmCache.present \/ pmFrom # from_
          THEN \E made \in {configuration(Calling)} :
                  /\ cb' = made
                  /\ cbLast' = [op |-> "matcher", arg |-> from_]
                  /\ cbClean' = TRUE
                  /\ cfgSeen' = [rewriters |-> Rewriters(made),
                                 monitors |-> MonitorList(made)]
                  /\ pmFrom' = from_
                  /\ pmCache' = make_matcher4(made, from_, kargs)
                  /\ pmLast' = [from_ |-> from_, kargs |-> kargs,
                                served |-> FALSE]
          ELSE /\ pmLast' = [from_ |-> from_, kargs |-> kargs, served |-> TRUE]
               /\ cbLast' = [op |-> "matcher", arg |-> from_]
               /\ UNCHANGED <<cb, cbClean, cfgSeen, pmFrom, pmCache>>
    /\ UNCHANGED otherThanMixin

MixinNext ==
    \/ Call_add_rewriter
    \/ Call_remove_rewriters
    \/ Call_add_monitor
    \/ Call_stream_factory
    \/ Call_clear
    \/ Read_configuration
    \/ Set_alphabet
    \/ ParserMixin_matcher

\* C29: whenever a call is served from the cached matcher, that matcher was
\* built from the rewriters, monitors and stream factory the builder holds
\* now, for the input kind of the call and with its keyword arguments.
C29_CacheCurrent ==
    [][(pmCalls' # pmCalls /\ pmLast'.served) =>
          /\ pmCache'.rewriters = Rewriters(cb')
          /\ pmCache'.monitors = MonitorList(cb')
          /\ pmCache'.stream_factory = cb'.stream_factory
          /\ pmCache'.from_ = pmLast'.from_
          /\ pmCache'.kargs = pmLast'.kargs]_vars

\* ------------------------------------------------------------------------
\* Properties of ConstructorWalker
\* ------------------------------------------------------------------------

\* the nodes an argument list names (a Proxy and a leaf are not nodes)
ChildNodes(i) ==
    {clHeap[i].args[j].x :
        j \in {k \in 1..Len(clHeap[i].args) : clHeap[i].args[k].kind = "node"}}

RECURSIVE ReachableFrom(_)
ReachableFrom(S) ==
    LET T == S \cup UNION {ChildNodes(i) : i \in S}
    IN IF T = S THEN S ELSE ReachableFrom(T)

\* how many times node i was visited in the walk so far
Visits(i) == Cardinality({k \in 1..Len(clVisited) : clVisited[k] = i})

\* C30: in a walk of ConstructorWalker, cycles and shared children or not,
\* visitor.node and visitor.constructor are called exactly once for every
\* node reachable from the root: never twice for a node during the walk,
\* and once for each when the walk has ended.
C30_VisitedOnce ==
    clWalking =>
        /\ \A i \in 1..Len(clHeap) : Visits(i) <= 1
        /\ clOrder = <<>> =>
              \A i \in ReachableFrom({clRoots[Len(clRoots)]}) : Visits(i) = 1

\* ------------------------------------------------------------------------
\* dfs_edges (graph.py)
\* ------------------------------------------------------------------------

\* the flags of an item, lines 55-60
FORWARD == 1
BACKWARD == 2
NONTREE == 4
ROOT == 8
NODE == 16
LEAF == 32

\* the direction flags of an item: a | b of two different flags
Has(direction, flag) == (direction \div flag) % 2 = 1

Item(parent, child, direction) == <<parent, child, direction>>

Frame(node, children, ptype) ==
    [node |-> node, children |-> children, ptype |-> ptype]

\* a membership test that finds nothing
safe_in_Never(child, visited) == FALSE

\* safe_in(child, visited, False), line 88, for hashable nodes
safe_in(child, visited) == child \in visited

DfsInit ==
    /\ \E n \in 1..MaxNodes :
          \E a \in [1..n -> ArgLists(n)] : dfHeap = Graph(n, a)
    /\ dfStack = <<>>
    /\ dfVisited = {}
    /\ dfAdd = <<>>
    /\ dfItems = <<>>
    /\ dfPc = "new"

DfsIdle ==
    /\ dfHeap = <<[type |-> NodeType(1), args |-> <<>>]>>
    /\ dfStack = <<>>
    /\ dfVisited = {}
    /\ dfAdd = <<>>
    /\ dfItems = <<>>
    /\ dfPc = "done"

\* next() on the new generator: lines 77-80, up to the first yield
dfs_edges_first ==
    /\ dfPc = "new"
    /\ dfStack' = <<Frame(ArgNode(1), dfHeap[1].args, ROOT)>>
    /\ dfItems' = <<Item(ArgNode(1), ArgNode(1), FORWARD + ROOT)>>
    /\ dfAdd' = <<ArgNode(1)>>
    /\ dfPc' = "yielded"
    /\ UNCHANGED <<dfHeap, dfVisited>>
    /\ UNCHANGED otherThanDfs

\* next() after an item: what follows the yield (safe_add, lines 81-82 and
\* 93), then one turn of the loop, lines 83-100, or the last yield, line 101
dfs_edges_next ==
    /\ dfPc = "yielded"
    /\ \E visited \in {dfVisited \cup {dfAdd[k] : k \in 1..Len(dfAdd)}} :
          /\ dfVisited' = visited
          /\ IF dfStack = <<>>
             THEN /\ dfItems' = Append(dfItems,
                                   Item(ArgNode(1), ArgNode(1), BACKWARD + ROOT))
                  /\ dfPc' = "last"
                  /\ dfAdd' = <<>>
                  /\ UNCHANGED dfStack
             ELSE \E top \in {dfStack[Len(dfStack)]},
                     below \in {SubSeq(dfStack, 1, Len(dfStack) - 1)} :
                  IF top.children # <<>>
                  THEN \E child \in {Head(top.children)},
                          rest \in {Append(below, [top EXCEPT !.children = Tail(@)])} :
                       /\ dfPc' = "yielded"
                       /\ IF child.kind = "node"
                          THEN IF safe_in(child, visited)
                               THEN /\ dfStack' = rest
                                    /\ dfItems' = Append(dfItems,
                                                     Item(top.node, child, NONTREE))
                                    /\ dfAdd' = <<>>
                               ELSE /\ dfStack' = Append(rest,
                                                    Frame(child, dfHeap[child.x].args, NODE))
                                    /\ dfItems' = Append(dfItems,
                                                     Item(top.node, child, FORWARD + NODE))
                                    /\ dfAdd' = <<child>>
                          ELSE /\ dfStack' = Append(rest, Frame(child, <<>>, LEAF))
                               /\ dfItems' = Append(dfItems,
                                                Item(top.node, child, FORWARD + LEAF))
                               /\ dfAdd' = <<>>
                  ELSE /\ dfStack' = below
                       /\ dfAdd' = <<>>
                       /\ IF below # <<>>
                          THEN /\ dfItems' = Append(dfItems,
                                                Item(below[Len(below)].node, top.node,
                                                     BACKWARD + top.ptype))
                               /\ dfPc' = "yielded"
                          ELSE /\ dfItems' = Append(dfItems,
                                                Item(ArgNode(1), ArgNode(1), BACKWARD + ROOT))
                               /\ dfPc' = "last"
    /\ UNCHANGED dfHeap
    /\ UNCHANGED otherThanDfs

\* next() after the last item: return, line 102
dfs_edges_return ==
    /\ dfPc = "last"
    /\ dfPc' = "done"
    /\ UNCHANGED <<dfHeap, dfStack, dfVisited, dfAdd, dfItems>>
    /\ UNCHANGED otherThanDfs

DfsNext ==
    \/ dfs_edges_first
    \/ dfs_edges_next
    \/ dfs_edges_return

\* ---- properties of dfs_edges

DfNodes == 1..Len(dfHeap)

\* the positions of node p's arguments that hold node c
DfEdges(p, c) == {j \in 1..Len(dfHeap[p].args) : dfHeap[p].args[j] = ArgNode(c)}

RECURSIVE DfReachable(_)
DfReachable(S) ==
    LET T == S \cup {c \in DfNodes : \E p \in S : DfEdges(p, c) # {}}
    IN IF T = S THEN S ELSE DfReachable(T)

\* where the items with this child and this flag are
DfAt(child, flag) ==
    {k \in 1..Len(dfItems) : dfItems[k][2] = child /\ Has(dfItems[k][3], flag)}

\* where the items of this edge with this direction are
DfEdgeAt(p, c, direction) ==
    {k \in 1..Len(dfItems) : dfItems[k] = Item(ArgNode(p), ArgNode(c), direction)}

\* the nodes of the DFS subtree of the nodes S: those entered from them by
\* a FORWARD item
RECURSIVE DfSubtree(_)
DfSubtree(S) ==
    LET T == S \cup {c \in DfNodes :
                        \E p \in S : DfEdgeAt(p, c, FORWARD + NODE) # {}}
    IN IF T = S THEN S ELSE DfSubtree(T)

\* the number of argument positions of the graph
RECURSIVE DfArgs(_)
DfArgs(n) == IF n = 0 THEN 0 ELSE Len(dfHeap[n].args) + DfArgs(n - 1)

\* C31: dfs_edges ends on every finite graph, cyclic or not (never more
\* than two items for the root and two for every argument position); the
\* first item is (root, root, FORWARD|ROOT) and the last (root, root,
\* BACKWARD|ROOT); every node reachable from the root has exactly one
\* FORWARD and one BACKWARD item, and the items between the two are those
\* of its DFS subtree; every edge to a node already visited is reported
\* once, as NONTREE, and the node is not entered again.
C31_DfsEdges ==
    /\ dfItems # <<>> =>
          dfItems[1] = Item(ArgNode(1), ArgNode(1), FORWARD + ROOT)
    /\ Len(dfItems) <= 2 + 2 * DfArgs(Len(dfHeap))
    /\ \A i \in DfNodes :
          /\ Cardinality(DfAt(ArgNode(i), FORWARD)) <= 1
          /\ Cardinality(DfAt(ArgNode(i), BACKWARD)) <= 1
    /\ \A k \in 1..Len(dfItems) :
          dfItems[k][3] = NONTREE =>
             \E f \in DfAt(dfItems[k][2], FORWARD) : f < k
    /\ dfPc \in {"last", "done"} =>
          /\ dfItems[Len(dfItems)] = Item(ArgNode(1), ArgNode(1), BACKWARD + ROOT)
          /\ \A i \in DfReachable({1}) :
                /\ Cardinality(DfAt(ArgNode(i), FORWARD)) = 1
                /\ Cardinality(DfAt(ArgNode(i), BACKWARD)) = 1
                /\ \A f \in DfAt(ArgNode(i), FORWARD), b \in DfAt(ArgNode(i), BACKWARD) :
                      /\ f < b
                      /\ \A k \in 1..Len(dfItems) :
                            (f < k /\ k < b) <=>
                               /\ dfItems[k][1].x \in DfSubtree({i})
                               /\ ~Has(dfItems[k][3], ROOT)
          /\ \A p \in DfReachable({1}), c \in DfNodes :
                /\ Cardinality(DfEdgeAt(p, c, NONTREE))
                      + Cardinality(DfEdgeAt(p, c, FORWARD + NODE))
                   = Cardinality(DfEdges(p, c))
          /\ \A p \in DfNodes \ DfReachable({1}), k \in 1..Len(dfItems) :
                dfItems[k][1] # ArgNode(p)

\* a graph with a cycle through the root, a node with two parents and a
\* leaf, traversed to the end
C31_Witness ==
    /\ dfPc = "done"
    /\ dfHeap[1].args = <<ArgNode(2), ArgNode(3)>>
    /\ Len(dfHeap) = 3
    /\ dfHeap[2].args = <<ArgNode(3), ArgLeaf("a")>>
    /\ dfHeap[3].args = <<ArgNode(1)>>
    /\ Len(dfItems) = 10
    /\ dfItems[4] = Item(ArgNode(3), ArgNode(1), NONTREE)
    /\ dfItems[9] = Item(ArgNode(1), ArgNode(3), NONTREE)

\* ---- visitor.loop

\* the heap index before the first node made in this walk
ClBase == Len(clHeap) - Len(clVisited)

\* C32: in a walk, visitor.loop is called only for an argument that lies on
\* a cycle through the node under construction; every other argument that
\* is a node is given to the constructor as the result of an earlier
\* constructor call for that argument.
C32_LoopOnCycle ==
    clWalking =>
        /\ \A pr \in clLoops : pr[1] \in ReachableFrom({pr[2]})
        /\ \A k \in 1..Len(clVisited) :
              \A j \in 1..Len(clHeap[clVisited[k]].args) :
                 LET old == clHeap[clVisited[k]].args[j]
                     new == clHeap[ClBase + k].args[j]
                 IN (old.kind = "node" /\ <<clVisited[k], old.x>> \notin clLoops) =>
                       /\ new.kind = "node"
                       /\ new.x \in (ClBase + 1)..(ClBase + k - 1)
                       /\ clVisited[new.x - ClBase] = old.x

\* ---- the token generator ends

\* C33: for every finite stream and both discard regexps, the empty one
\* included, the token generator of _OffsideLexer is eventually exhausted or
\* raises RuntimeLexerError: it does not stay at one stream position
\* forever.
C33_LexerEnds == <>(lxPc \in {"done", "RuntimeLexerError"})

\* ---- the location of the error

\* C38: the RuntimeLexerError raised by _tokens carries the location where
\* neither the token regexp nor the discard regexp matched, not an earlier
\* one such as the start of the line.
C38_ErrorLocation ==
    lxPc = "RuntimeLexerError" => lxErr = Location(lxLineNo, lxPos)

\* ------------------------------------------------------------------------
\* The level the lines of a Block are matched at
\* ------------------------------------------------------------------------

\* C34: whenever the lines of a Block invocation are being evaluated, also
\* when the Block was entered again for a further result, the innermost
\* level of the parse's monitor is the level that invocation computed with
\* its policy.
C34_LinesAtOwnLevel ==
    \A p \in Parses, b \in BlockSlots :
       (\E k \in 1..Len(bkStack[p]) : bkStack[p][k] = LinesOf(b)) =>
          /\ bkLevels[p] # <<>>
          /\ MonitorIndent(bkLevels, p) = bkLevelOf[p][b]

\* ------------------------------------------------------------------------
\* What the monitor is told of the stack
\* ------------------------------------------------------------------------

\* how many times coroutine g is on the stack s
Depth(s, g) == Cardinality({k \in 1..Len(s) : s[k] = g})

\* C35: at the start of every iteration, and while the trampoline is
\* suspended at its yield, the calls of monitor.push less the calls of
\* monitor.pop are the coroutines on the stack; when the trampoline has
\* ended, by exhaustion, by an error or because the consumer closed it,
\* every coroutine that push reported has been reported by pop.
C35_PushPopBalanced ==
    /\ pc \in {"loop", "yielded"} =>
          \A g \in Gens : monPush[g] - monPop[g] = Depth(stack, g)
    /\ pc = "done" => monPush = monPop

\* a coroutine raised KeyboardInterrupt while two others were on the stack
\* below it, and the finally clause reported all three
C35_Witness ==
    /\ pc = "done"
    /\ raised = KeyboardInterrupt
    /\ lastOp.to = "g3" /\ lastOp.op = "next"
    /\ \A g \in Gens : monPush[g] = 1 /\ monPop[g] = 1
    /\ gen["g2"] = "suspended" /\ gen[main] = "suspended"

\* ------------------------------------------------------------------------
\* The trampoline answers
\* ------------------------------------------------------------------------

\* C39: when every coroutine yields finitely many values and child
\* coroutines, every request of the outer consumer is answered after
\* finitely many iterations (fewer than MaxEpoch here) by a result, by the
\* end of the sequence or by an error.
C39_Answered ==
    /\ [](pc = "loop" => epoch < MaxEpoch)
    /\ (pc = "loop") ~> (pc \in {"yielded", "done"})

\* a second request was answered by the end of the sequence, after main had
\* yielded a child and a result
C39_Witness ==
    /\ pc = "done"
    /\ raised = StopIteration
    /\ Len(results) = 1
    /\ genLeft[main] = 0
    /\ gen["g2"] = "finished"
    /\ epoch >= 6

\* ------------------------------------------------------------------------
\* Properties of the proxies of a Clone walk
\* ------------------------------------------------------------------------

\* the node of the graph walked that the heap node c was made from in this
\* walk, 0 when c was not made in this walk
MadeFrom(c) ==
    IF c > ClBase /\ c <= Len(clHeap) THEN clVisited[c - ClBase] ELSE 0

\* C36: when a Clone walk has completed, every Proxy made by Clone.loop was
\* given a node: no delegate is None, and the delegate of the proxy made for
\* node i is a node this walk constructed from i, of the type of i.
C36_ProxiesSet ==
    (clOrder = <<>> /\ clVisited # <<>>) =>
        /\ \A j \in 1..Len(clDelegate) : clDelegate[j] # 0
        /\ \A i \in 1..Len(clProxies) :
              clProxies[i] # 0 =>
                  /\ MadeFrom(clDelegate[clProxies[i]]) = i
                  /\ clHeap[clDelegate[clProxies[i]]].type = clHeap[i].type

\* a completed walk over a graph with a cycle in which two nodes were given
\* proxies and one node was constructed more than once
C36_Witness ==
    /\ clWalking
    /\ clOrder = <<>>
    /\ Cardinality({i \in 1..Len(clProxies) : clProxies[i] # 0}) >= 2
    /\ \E i \in 1..Len(clProxies) : clProxies[i] # 0 /\ Visits(i) >= 2

\* ------------------------------------------------------------------------
\* loops (graph.py 159-179)
\* ------------------------------------------------------------------------

LoopsInit ==
    /\ \E n \in 1..MaxNodes :
          \E a \in [1..n -> ArgLists(n)] : loHeap = Graph(n, a)
    /\ loStack = <<>>
    /\ loKnown = {}
    /\ loAncestors = <<>>
    /\ loTodo = <<>>
    /\ loOut = <<>>
    /\ loPc = "new"

LoopsIdle ==
    /\ loHeap = <<[type |-> NodeType(1), args |-> <<>>]>>
    /\ loStack = <<>>
    /\ loKnown = {}
    /\ loAncestors = <<>>
    /\ loTodo = <<>>
    /\ loOut = <<>>
    /\ loPc = "done"

\* next() on the new generator: lines 164-165, for node 1
loops_first ==
    /\ loPc = "new"
    /\ loStack' = <<<<ArgNode(1)>>>>
    /\ loKnown' = {ArgNode(1)}
    /\ loPc' = "loop"
    /\ UNCHANGED <<loHeap, loAncestors, loTodo, loOut>>
    /\ UNCHANGED otherThanLoops

\* one turn of the while loop, lines 166-170, the for loop over the
\* children of a parent of type_ begun: a leaf has no children to look at
loops_pop ==
    /\ loPc \in {"loop", "yielded"}
    /\ loTodo = <<>>
    /\ loStack # <<>>
    /\ loStack' = SubSeq(loStack, 1, Len(loStack) - 1)
    /\ loAncestors' = loStack[Len(loStack)]
    /\ \E parent \in {loStack[Len(loStack)][Len(loStack[Len(loStack)])]} :
          loTodo' = IF parent.kind = "node" THEN loHeap[parent.x].args
                    ELSE <<>>
    /\ loPc' = "loop"
    /\ UNCHANGED <<loHeap, loKnown, loOut>>
    /\ UNCHANGED otherThanLoops

\* one child of the for loop, lines 170-179
loops_child ==
    /\ loPc \in {"loop", "yielded"}
    /\ loTodo # <<>>
    /\ loTodo' = Tail(loTodo)
    /\ \E child \in {Head(loTodo)} :
       \E family \in {Append(loAncestors, child)} :
          IF child = ArgNode(1)
          THEN /\ loOut' = Append(loOut, family)
               /\ loPc' = "yielded"
               /\ UNCHANGED <<loStack, loKnown>>
          ELSE IF child \notin loKnown
          THEN /\ loStack' = Append(loStack, family)
               /\ loKnown' = loKnown \cup {child}
               /\ loPc' = "loop"
               /\ UNCHANGED loOut
          ELSE /\ loPc' = "loop"
               /\ UNCHANGED <<loStack, loKnown, loOut>>
    /\ UNCHANGED <<loHeap, loAncestors>>
    /\ UNCHANGED otherThanLoops

\* the stack is empty, line 166: the generator ends
loops_return ==
    /\ loPc \in {"loop", "yielded"}
    /\ loTodo = <<>>
    /\ loStack = <<>>
    /\ loPc' = "done"
    /\ UNCHANGED <<loHeap, loStack, loKnown, loAncestors, loTodo, loOut>>
    /\ UNCHANGED otherThanLoops

LoopsNext ==
    \/ loops_first
    \/ loops_pop
    \/ loops_child
    \/ loops_return

\* ------------------------------------------------------------------------
\* Properties of loops
\* ------------------------------------------------------------------------

\* node j is among the children of node i
LoChild(i, j) ==
    \E k \in 1..Len(loHeap[i].args) : loHeap[i].args[k] = ArgNode(j)

\* the simple cycles through node 1: from node 1 to node 1 by edges of the
\* graph, no node in between met twice
SimpleCycles ==
    {[k \in 1..Len(p) |-> ArgNode(p[k])] :
        p \in {q \in UNION {[1..m -> 1..Len(loHeap)] : m \in 2..(Len(loHeap) + 1)} :
                 /\ q[1] = 1
                 /\ q[Len(q)] = 1
                 /\ \A k \in 2..(Len(q) - 1) : q[k] # 1
                 /\ \A k \in 2..(Len(q) - 1) :
                       \A l \in 2..(Len(q) - 1) : k # l => q[k] # q[l]
                 /\ \A k \in 1..(Len(q) - 1) : LoChild(q[k], q[k + 1])}}

\* a list that starts and ends with node 1, each element a child of the one
\* before it
LoWellFormed(f) ==
    /\ Len(f) >= 2
    /\ f[1] = ArgNode(1)
    /\ f[Len(f)] = ArgNode(1)
    /\ \A k \in 1..(Len(f) - 1) :
          /\ f[k].kind = "node"
          /\ \E j \in 1..Len(loHeap[f[k].x].args) :
                loHeap[f[k].x].args[j] = f[k + 1]

\* C37: loops(node, type_) returns all loops from node: every list it
\* yields starts and ends with node and has each element a child of the one
\* before it, and once the generator has ended every simple cycle through
\* node is among the lists it yielded.
C37_AllLoops ==
    /\ \A k \in 1..Len(loOut) : LoWellFormed(loOut[k])
    /\ loPc = "done" =>
          \A c \in SimpleCycles : \E k \in 1..Len(loOut) : loOut[k] = c

\* ------------------------------------------------------------------------
\* Specifications
\* ------------------------------------------------------------------------

\* the trampoline
EarlierIdle == TrampInit /\ CharIdle /\ FragIdle /\ TaggedIdle /\ ConfigIdle
LaterIdle == LexIdle /\ BlockIdle /\ MatcherIdle
GraphIdle == DfsIdle /\ LoopsIdle
FurtherIdle == TokenIdle /\ SingleIdle /\ MixinInit /\ GraphIdle
MoreIdle == CommuteIdle /\ CloneIdle /\ FurtherIdle

Init == TrampInit /\ CharIdle /\ FragIdle /\ TaggedIdle /\ ConfigIdle /\ LaterIdle /\ MoreIdle
Next == TrampNext
Spec == Init /\ [][Next]_vars

\* the trampoline with coroutines that may also raise an exception that is
\* no Exception
SpecMonitor == Init /\ [][MonitorNext]_vars

\* the trampoline over generators that yield finitely many items; once the
\* consumer has asked, the loop runs on by itself
InitFinite == FiniteInit /\ CharIdle /\ FragIdle /\ TaggedIdle /\ ConfigIdle /\ LaterIdle /\ MoreIdle
SpecFinite == InitFinite /\ [][TrampNext]_vars /\ WF_vars(Iterations)

\* a Character
InitCharacter == CharInit /\ TrampInit /\ FragIdle /\ TaggedIdle /\ ConfigIdle /\ LaterIdle /\ MoreIdle
SpecCharacter == InitCharacter /\ [][CharNext]_vars

\* a Fragments
InitFragments == FragInit /\ TrampInit /\ CharIdle /\ TaggedIdle /\ ConfigIdle /\ LaterIdle /\ MoreIdle
SpecFragments == InitFragments /\ [][FragNext]_vars

\* a TaggedFragments
InitTagged == TaggedInit /\ TrampInit /\ CharIdle /\ FragIdle /\ ConfigIdle /\ LaterIdle /\ MoreIdle
SpecTagged == InitTagged /\ [][TaggedNext]_vars

\* a ConfigBuilder
InitConfig == ConfigInit /\ TrampInit /\ CharIdle /\ FragIdle /\ TaggedIdle /\ LaterIdle /\ MoreIdle
SpecConfig == InitConfig /\ [][ConfigNext]_vars

\* an _OffsideLexer
InitLexer == LexInit /\ EarlierIdle /\ BlockIdle /\ MatcherIdle /\ MoreIdle
SpecLexer == InitLexer /\ [][LexNext]_vars

\* an _OffsideLexer made with the default or the empty discard regexp, and
\* a consumer that goes on asking for tokens
InitLexerAny == LexInitAny /\ EarlierIdle /\ BlockIdle /\ MatcherIdle /\ MoreIdle
SpecLexerAny == InitLexerAny /\ [][LexAnyNext]_vars /\ WF_vars(LexAnyNext)

\* two parses over a shared Block
InitBlock == BlockInit /\ EarlierIdle /\ LexIdle /\ MatcherIdle /\ MoreIdle
SpecBlock == InitBlock /\ [][BlockNext]_vars

\* make_matcher and the parser it returns
InitMatcher == MatcherInit /\ EarlierIdle /\ LexIdle /\ BlockIdle /\ MoreIdle
SpecMatcher == InitMatcher /\ [][MatcherNext]_vars

\* one builder state and two setter calls, made in the two orders
InitCommute == CommuteInit /\ EarlierIdle /\ LaterIdle /\ CloneIdle /\ FurtherIdle
SpecCommute == InitCommute /\ [][CommuteNext]_vars

\* a graph, cloned and cloned again
InitClone == CloneInit /\ EarlierIdle /\ LaterIdle /\ CommuteIdle /\ FurtherIdle
SpecClone == InitClone /\ [][CloneNext]_vars

\* one Token matched against a token stream
InitToken == TokenInit /\ EarlierIdle /\ LaterIdle /\ CommuteIdle /\ CloneIdle /\ SingleIdle /\ MixinInit /\ GraphIdle
SpecToken == InitToken /\ [][TokenNext]_vars

\* one call of a parser made by make_parser, over the trampoline
InitSingle == SingleInit /\ EarlierIdle /\ LaterIdle /\ CommuteIdle /\ CloneIdle /\ TokenIdle /\ MixinInit /\ GraphIdle
SpecSingle == InitSingle /\ [][SingleNext]_vars

\* a matcher with its builder: setters, reads of the configuration, and
\* calls that need the matcher
SpecMixin == Init /\ [][MixinNext]_vars

\* a graph traversed by dfs_edges
InitDfs == DfsInit /\ EarlierIdle /\ LaterIdle /\ CommuteIdle /\ CloneIdle /\ TokenIdle /\ SingleIdle /\ MixinInit /\ LoopsIdle
SpecDfs == InitDfs /\ [][DfsNext]_vars
InitLoops == LoopsInit /\ EarlierIdle /\ LaterIdle /\ CommuteIdle /\ CloneIdle /\ TokenIdle /\ SingleIdle /\ MixinInit /\ DfsIdle
SpecLoops == InitLoops /\ [][LoopsNext]_vars

====
